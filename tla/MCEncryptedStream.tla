-------------------------- MODULE MCEncryptedStream --------------------------
(* Model checking of EncryptedStream: frames on both sides of the limit of a *)
(* one-byte header, and a message too long to send.                          *)
EXTENDS EncryptedStream

SomeLengths == {16, 64, 1073741824}

(* Empty frame; a frame of one byte; headers of two and four bytes. *)
SomeBytes == {0, 4, 1, 3}
=============================================================================
