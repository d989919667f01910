----------------------------- MODULE GdromStream ----------------------------
(***************************************************************************)
(* What the GD-ROM buffer queue promises the guest, as a stream of bytes: *)
(* a command's response replaces whatever was left unread, and reads      *)
(* (PIO through the data register, or a G1 DMA) take bytes from the front *)
(* of it, in order, never putting any back.                               *)
(*                                                                         *)
(* A byte is <<kind, src, off>>: the response it belongs to, the source   *)
(* of its run (the FAD of a sector, the first mode-info byte) and its     *)
(* offset in the run.  GdromDrive implements this specification under the *)
(* mapping stream <- BufqStream(bufq).                                     *)
(***************************************************************************)
EXTENDS Naturals, Sequences

CONSTANT SectorLen     \* bytes per sector

VARIABLE stream        \* the bytes the guest has still to read, in order

(***************************************************************************)
(* s is a whole response from its first byte: one run of bytes 0..n-1     *)
(* from one source, or, for a sector read, whole sectors, each one run    *)
(* from one FAD.                                                           *)
(***************************************************************************)
IsResponse(r) ==
    LET s == r
    IN \/ s = <<>>
       \/ LET k == s[1][1]
              run == IF k = "SECTOR" THEN SectorLen ELSE Len(s)
          IN /\ Len(s) % run = 0
             /\ \A i \in 1..Len(s) :
                   /\ s[i][1] = k
                   /\ s[i][3] = (i - 1) % run
                   /\ s[i][2] = s[((i - 1) \div run) * run + 1][2]

Init == stream = <<>>

\* A command queues its response; what was left unread is gone.
Respond == IsResponse(stream')

\* The guest takes one or more bytes from the front: what is left is a
\* shorter suffix.
Read ==
    LET old == stream
        new == stream'
        n == Len(old) - Len(new)
    IN n > 0 /\ new = SubSeq(old, n + 1, Len(old))

Next == Respond \/ Read

Spec == Init /\ [][Next]_stream
=============================================================================
