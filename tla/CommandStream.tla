--------------------------- MODULE CommandStream ---------------------------
(***************************************************************************)
(* What writing commands needs of a server: that it reads from their       *)
(* bytes, one behind the other, those commands, and each as soon as its    *)
(* last byte has arrived.                                                  *)
(***************************************************************************)
EXTENDS Naturals, Sequences

CONSTANTS
  BytesOf(_),   (* Protocol::serialize of module Serializer: the bytes     *)
  Reads(_)      (* the commands that a server reads from bytes             *)

\* f[k] are the bytes of the first k commands
Streamed(f, cmds) ==
  /\ f[0] = <<>>
  /\ \A k \in 0 .. Len(cmds) - 1 : f[k + 1] = f[k] \o BytesOf(cmds[k + 1])

\* of the first n bytes, the server reads the commands that they hold to the end
Understood(f, cmds) ==
  \A k \in 0 .. Len(cmds) : \A n \in Len(f[k]) .. Len(f[Len(cmds)]) :
    (k < Len(cmds) => n < Len(f[k + 1])) =>
      Reads(SubSeq(f[Len(cmds)], 1, n)) = SubSeq(cmds, 1, k)
=============================================================================
