----------------------------- MODULE GdromBufq -----------------------------
(***************************************************************************)
(* The GD-ROM buffer queue of src/src/hw/gdrom/gdrom_reg.c: a FIFO of     *)
(* fixed-capacity nodes (struct gdrom_bufq_node), each with a cursor idx  *)
(* and a valid length len.  The bytes themselves are abstracted: a node   *)
(* records which response it holds (kind) and where its bytes start (src).*)
(* These are pure operators on the queue value; the drive module owns the *)
(* queue variable.                                                         *)
(***************************************************************************)
EXTENDS Naturals, Sequences

\* A queue node: which response it carries, where in that response its bytes
\* start (the FAD of a disc sector), its length and its cursor.
Node(kind, src, len) == [kind |-> kind, src |-> src, len |-> len, idx |-> 0]

\* bufq_clear: pop and free every node.
BufqClear(q) == <<>>

(***************************************************************************)
(* bufq_consume_byte: read dat[idx] of the head node, advance idx, and pop *)
(* the node once idx >= len.  The caller only uses it on a non-empty      *)
(* queue; on an empty queue the C function returns -1 and changes nothing.*)
(***************************************************************************)
BufqConsumeByte(q) ==
    IF q = <<>> THEN q
    ELSE LET h == Head(q)
         IN IF h.idx + 1 >= h.len
            THEN Tail(q)
            ELSE <<[h EXCEPT !.idx = @ + 1]>> \o Tail(q)

\* The loop of gdrom_data_reg_read_handler: consume len bytes, zero-filling
\* (without touching the queue) once it runs dry.
RECURSIVE BufqConsume(_, _)
BufqConsume(q, n) ==
    IF n = 0 THEN q ELSE BufqConsume(BufqConsumeByte(q), n - 1)

(***************************************************************************)
(* The bytes the queue still holds, in the order bufq_consume_byte hands  *)
(* them out: for each node from the head, dat[idx] .. dat[len - 1], each  *)
(* named <<kind, src, offset in the node>>.                               *)
(***************************************************************************)
RECURSIVE BufqStream(_)
BufqStream(q) ==
    IF q = <<>> THEN <<>>
    ELSE LET h == Head(q)
         IN [j \in 1..(h.len - h.idx) |-> <<h.kind, h.src, h.idx + j - 1>>]
                \o BufqStream(Tail(q))
=============================================================================
