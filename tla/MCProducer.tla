----------------------------- MODULE MCProducer ------------------------------
(* One byte of metadata and up to four bytes of records in an entry, a      *)
(* request of one or two entries.                                           *)
EXTENDS Producer, TLC

CONSTANTS m1, m2, m3, big

Memory == Permutations(Buffers) \cup Permutations(Entries) \cup Permutations(Workers)

\* big is rejected by Put(); the others are let in.
MCRawSize == [m \in Messages |-> IF m = big THEN 5 ELSE 4]

\* Compression makes a message smaller or leaves it.
MCPackedSizes == [m \in Messages |-> IF m = m1 THEN {3} ELSE {4}]

\* As above, and m2 does not compress: the frame around it makes it larger
\* than an entry.
MCPackedLarger == [m \in Messages |-> CASE m = m1 -> {2} [] m = m2 -> {2, 5} [] OTHER -> {3}]
=============================================================================
