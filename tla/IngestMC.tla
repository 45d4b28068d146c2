------------------------------ MODULE IngestMC -------------------------------
(* Values for the constants of Ingest. *)
EXTENDS Ingest, TLC

\* Two stems; a stem with up to two suffixes, so that a client may upload the
\* very name that _unique_dest gives to another file.
MCTails == {<<>>, <<2>>} \cup {Append(t, k) : t \in {<<>>, <<2>>}, k \in 2..Cardinality(Writers) + 1}
MCFileNames == [stem : {"a", "b"}, tail : MCTails]

Sorted(s, t, c) == [name |-> [stem |-> s, tail |-> t], content |-> c,
                    mode |-> "sorted", dir |-> Category]
Mirror(s, t, c, d) == [Sorted(s, t, c) EXCEPT !.mode = "mirror", !.dir = d]
InInbox(s, t, c) == [Sorted(s, t, c) EXCEPT !.mode = "inbox", !.dir = Inbox]

\* Two contents of one name, and an upload that may run beside either.
MCOffers == {Sorted("a", <<>>, "x"), Sorted("a", <<>>, "y"), Mirror("b", <<>>, "y", Manual)}

\* With a name that _unique_dest gives, a file for the inbox, and an upload
\* straight into the directory of a part.
MCMoreOffers == {Sorted("a", <<>>, "x"), Sorted("a", <<>>, "y"), Mirror("a", <<2>>, "x", Manual),
                 InInbox("b", <<>>, "y"), Mirror("b", <<>>, "x", 1)}

MCSymmetry == Permutations(Writers)

\* For the uploads whose names may collide.
MCColliding == {Sorted("a", <<>>, "x"), Sorted("a", <<>>, "y")}
==============================================================================
