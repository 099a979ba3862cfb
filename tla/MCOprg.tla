------------------------------- MODULE MCOprg -------------------------------
(***************************************************************************)
(* Up to three bins, up to three threads: parts of one batch and of two,  *)
(* parts that end at a bin and inside one, that are short, and that are    *)
(* empty.  The server's bins hold up to one element more than there are    *)
(* codewords.  Both sides have the same number of threads or the client    *)
(* has more: then the first threads have the same OTs (one bin of two      *)
(* bytes), a server's thread waits for more than comes, or the client's    *)
(* second one sends more than the connection takes (thirteen bytes).       *)
(***************************************************************************)
EXTENDS Oprg

Threads(client, server) == [r \in {"client", "server"} |-> IF r = "client" THEN client ELSE server]

Alike(counts) == {Threads(n, n) : n \in counts}

SetupsOf(bins, bytes, threadCounts, clientBins, serverBins) ==
  {[bins |-> bins, bytes |-> bytes, threads |-> n,
    nelesinbin |-> [r \in {"client", "server"} |-> IF r = "client" THEN c ELSE s]] :
     n \in threadCounts, c \in [0 .. bins - 1 -> clientBins], s \in [0 .. bins - 1 -> serverBins]}

MCSetups == SetupsOf(3, 2, Alike({2}), {1}, {1}) \cup SetupsOf(2, 3, Alike({2, 3}), {1}, {1})
            \cup SetupsOf(2, 2, Alike({1, 2}), {0, 1}, {1, 2})
            \cup SetupsOf(3, 1, Alike({2, 3}), {1}, {0, 3})
            \cup SetupsOf(1, 9, Alike({2}), {0}, {1}) \cup SetupsOf(2, 3, Alike({1}), {1}, {2, 3})
            \cup SetupsOf(1, 2, {Threads(3, 2)}, {1}, {1})
            \cup SetupsOf(2, 3, {Threads(3, 1), Threads(3, 2)}, {0}, {1})
            \cup SetupsOf(1, 13, {Threads(2, 1)}, {0}, {1})
            \cup SetupsOf(3, 3, {Threads(3, 2)}, {0}, {1})
=============================================================================
