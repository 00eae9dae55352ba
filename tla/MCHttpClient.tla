---------------------------- MODULE MCHttpClient ------------------------------
(* Workloads for the runs of HttpClient. *)
EXTENDS HttpClient

CONSTANTS t1, t2

MCThreads == {t1, t2}

Of(op1, op2) == [t \in Threads |-> IF t = AThread THEN op1 ELSE op2]

\* One call alone: every operation, two retries, every answer.
Single ==
    {[ops |-> Of(op, "none"), retries |-> 2, answers |-> {200, 302, 404, 503},
      checksum |-> TRUE, explode |-> TRUE, cap |-> 14] : op \in AllOps}

\* Two that share the client: a download, a redirected POST, a GET that must not follow.
Pairs ==
    {[ops |-> Of(p[1], p[2]), retries |-> 1, answers |-> {200, 302},
      checksum |-> FALSE, explode |-> FALSE, cap |-> 1] :
       p \in {<<"download", "getNoRedirect">>, <<"post", "getNoRedirect">>, <<"download", "post">>,
              <<"getNoRedirect", "getNoRedirect">>}}

MCWorkloads == Single \cup Pairs

\* A GET that must not follow redirects beside one that may.
MCRace ==
    {[ops |-> Of("getNoRedirect", "get"), retries |-> 1, answers |-> {200, 302},
      checksum |-> TRUE, explode |-> FALSE, cap |-> 1]}
=============================================================================
