-------------------------------- MODULE Wire --------------------------------
(***************************************************************************)
(* What frps and xfrpc write to each other on the control channel, and how *)
(* it is taken apart: frp messages (src/control.c), the AES-CFB coder of    *)
(* protocol v1 (src/crypto.c), the frames of protocol v2 (src/wire_v2.c)    *)
(* and its AEAD records (src/aead_stream.c).  Pure operators.               *)
(*                                                                         *)
(* Bytes are tokens, tuples whose first element says what they are.  What  *)
(* the code reads in one piece of fixed size (a header, an IV) is two       *)
(* tokens where the code must cope with half of it, and one where a half   *)
(* only makes it wait.  A coder works by position: the n-th token of a      *)
(* ciphertext is readable only to a decoder that starts from the same IV    *)
(* and has decrypted n - 1 tokens.                                          *)
(***************************************************************************)
EXTENDS Integers, Sequences, SequencesExt

Take(buf, n) == SubSeq(buf, 1, n)
Drop(buf, n) == SubSeq(buf, n + 1, Len(buf))

-----------------------------------------------------------------------------
(* struct msg_hdr and the JSON text behind it.                              *)

\* prepare_message: type and length, then the body.
Message(m) == <<<<"hdr", m>>, <<"body", m>>>>

Junk == <<"junk">>

(* The message at the front of a buffer: handle_control_work drops a buffer *)
(* shorter than a header or than the length the header states, and one      *)
(* whose type or JSON it does not know.  Whatever is behind it is not       *)
(* looked at.                                                               *)
FrontMessage(buf) ==
    IF Len(buf) >= 2 /\ buf[1][1] = "hdr" /\ buf[2] = <<"body", buf[1][2]>>
    THEN buf[1][2] ELSE "none"

-----------------------------------------------------------------------------
(* Protocol v1: AES-128-CFB.  s names the session the IV belongs to.        *)

IV(s) == <<<<"iv", s, 1>>, <<"iv", s, 2>>>>

NoCoder == [s |-> -1, n |-> 0]

\* new_coder with its own IV, or init_main_decoder with the one received
Coder(s) == [s |-> s, n |-> 0]

IVOf(two) == IF two[1][1] = "iv" /\ two[1][3] = 1 /\ two[2] = <<"iv", two[1][2], 2>>
             THEN two[1][2] ELSE 0

\* encrypt_data goes on where the last call ended: the context is kept.
\* Mutation: every call starts a new context.
MutEncryptData(coder, text) ==
    [coder |-> coder,
     out   |-> [i \in DOMAIN text |-> <<"ct", coder.s, i, text[i]>>]]

encrypt_data(coder, text) ==
    [coder |-> [coder EXCEPT !.n = @ + Len(text)],
     out   |-> [i \in DOMAIN text |-> <<"ct", coder.s, coder.n + i, text[i]>>]]

decrypt_data(coder, data) ==
    [coder |-> [coder EXCEPT !.n = @ + Len(data)],
     out   |-> [i \in DOMAIN data |->
                  IF data[i][1] = "ct" /\ data[i][2] = coder.s /\ data[i][3] = coder.n + i
                  THEN data[i][4] ELSE Junk]]

(* handle_enc_msg: the first 16 bytes ever received are the IV; fewer are   *)
(* dropped.                                                                 *)
handle_enc_msg(coder, buf) ==
    IF coder # NoCoder THEN decrypt_data(coder, buf)
    ELSE IF Len(buf) < 2 THEN [coder |-> coder, out |-> <<>>]
    ELSE decrypt_data(Coder(IVOf(Take(buf, 2))), Drop(buf, 2))

-----------------------------------------------------------------------------
(* Protocol v2: frames.                                                     *)

\* WIRE_V2_MAGIC, shorter than the header of a frame
Magic == <<<<"magic", 1>>, <<"magic", 2>>>>

\* wire_v2_encode_frame, wire_v2_encode_message: a header with the type, no
\* flags and the length, then the payload.
V2Frame(m) == <<<<"v2hdr", m>>, <<"v2body", m>>>>

(* wire_v2_parse_frame: wait for a whole header and a whole payload; a      *)
(* header with flags or a huge length is an error.  Bytes that are not a    *)
(* header are taken to have one of the two.                                 *)
ParseFrame(buf) ==
    IF Len(buf) <= 2 /\ \A i \in DOMAIN buf : buf[i][1] = "magic" THEN "wait"
    ELSE IF buf[1][1] # "v2hdr" THEN "error"
    ELSE IF Len(buf) = 1 THEN "wait"
    ELSE IF buf[2] = <<"v2body", buf[1][2]>> THEN buf[1][2] ELSE "error"

-----------------------------------------------------------------------------
(* Protocol v2: AEAD records.  The stream nonce comes once, before the      *)
(* first record; record n is sealed under nonce + n.                        *)

Nonce(s) == <<"nonce", s>>

NoWriter == [s |-> -1, n |-> 0, header_sent |-> FALSE]
Writer(s) == [s |-> s, n |-> 0, header_sent |-> FALSE]

aead_writer_seal(w, text) ==
    [w   |-> [w EXCEPT !.header_sent = TRUE, !.n = @ + 1],
     out |-> (IF w.header_sent THEN <<>> ELSE <<Nonce(w.s)>>)
             \o <<<<"clen", Len(text)>>>>
             \o [i \in DOMAIN text |-> <<"seal", w.s, w.n, text[i]>>]]

\* s = -1: header_read is not set.
NoReader == [key |-> FALSE, s |-> -1, n |-> 0, ct |-> <<>>]

Opens(r, body) == \A i \in DOMAIN body :
    body[i][1] = "seal" /\ body[i][2] = r.s /\ body[i][3] = r.n

(* aead_reader_feed: read the nonce, then open every whole record.  On an   *)
(* error the bytes stay where they are, so that every later call fails too. *)
RECURSIVE OpenRecords(_, _)
OpenRecords(r, pt) ==
    LET k == r.ct[1][2]
    IN  CASE r.ct = <<>> -> [r |-> r, pt |-> pt, ok |-> TRUE]
          [] r.ct # <<>> /\ r.s = -1 ->
                OpenRecords([r EXCEPT !.s = IF r.ct[1][1] = "nonce" THEN k ELSE 0,
                                      !.ct = Tail(@)], pt)
          [] r.ct # <<>> /\ r.s # -1 /\ r.ct[1][1] # "clen" ->
                [r |-> r, pt |-> pt, ok |-> FALSE]
          [] OTHER ->
                IF Len(r.ct) < 1 + k THEN [r |-> r, pt |-> pt, ok |-> TRUE]
                ELSE LET body == SubSeq(r.ct, 2, 1 + k)
                     IN  IF Opens(r, body)
                         THEN OpenRecords([r EXCEPT !.n = @ + 1, !.ct = Drop(@, 1 + k)],
                                          pt \o [i \in DOMAIN body |-> body[i][4]])
                         ELSE [r |-> r, pt |-> pt, ok |-> FALSE]

aead_reader_feed(r, bytes) == OpenRecords([r EXCEPT !.ct = @ \o bytes], <<>>)
=============================================================================
