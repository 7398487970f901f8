----------------------------- MODULE HostPerSite -----------------------------
(***************************************************************************)
(* The loop of _filter_choose_one_host_per_site (db/sliver_tool_fetcher.py)*)
(* on the slivers of one site, with the odds of its draws: weight[h] in    *)
(* every total weight is the probability that sites[site_id] is h now.     *)
(* The sites of a list do not touch each other.                            *)
(***************************************************************************)
EXTENDS Selection, Sequences, Functions

VARIABLES
    tools,       \* the list: slivers of one site, in the order they came
    roundrobin,  \* the hosts whose entity has the roundrobin flag
    done,        \* how many of the list the loop has seen
    weight,      \* the odds of each host
    counter      \* RoundRobinCounter[site_id]

vars == <<tools, roundrobin, done, weight, counter>>

Lists == UNION {{s \in [1..n -> Hosts] : \A i, j \in 1..n : s[i] = s[j] => i = j}
                   : n \in 1..Cardinality(Hosts)}

Init ==
    /\ tools \in Lists
    /\ roundrobin \in SUBSET Hosts
    /\ done = 0
    /\ weight = [h \in Hosts |-> 0]
    /\ counter = 2

Total(hosts) == FoldFunctionOnSet(+, 0, weight, hosts)

Tool == tools[done + 1]

See ==
    /\ done < Len(tools)
    /\ done' = done + 1
    /\ UNCHANGED <<tools, roundrobin>>

(* Wrong on purpose: the counter is kept at 2.                             *)
DrawOfTwo ==
    /\ See
    /\ done > 0
    /\ Tool \in roundrobin
    /\ weight' = [h \in Hosts |-> IF h = Tool THEN Total(Hosts) ELSE weight[h]]
    /\ UNCHANGED counter

(* Wrong on purpose: the first host by FQDN is the one that came last.     *)
KeepLast ==
    /\ See
    /\ done > 0
    /\ Tool \notin roundrobin
    /\ weight' = [h \in Hosts |-> IF h = Tool THEN Total(Hosts) ELSE 0]
    /\ UNCHANGED counter

KeepFirst ==
    /\ See
    /\ done = 0
    /\ weight' = [weight EXCEPT ![Tool] = 1]
    /\ UNCHANGED counter

(* The tool takes the place of the one kept in one case out of counter.    *)
Draw ==
    /\ See
    /\ done > 0
    /\ Tool \in roundrobin
    /\ weight' = [h \in Hosts |-> IF h = Tool THEN Total(Hosts)
                                  ELSE weight[h] * (counter - 1)]
    /\ counter' = counter + 1

(* The tool takes the place of one behind it by FQDN.                      *)
KeepMin ==
    /\ See
    /\ done > 0
    /\ Tool \notin roundrobin
    /\ LET behind == {h \in Hosts : Rank[h] > Rank[Tool]} IN
       weight' = [h \in Hosts |-> IF h = Tool THEN Total(behind)
                                  ELSE IF h \in behind THEN 0 ELSE weight[h]]
    /\ UNCHANGED counter

Next == KeepFirst \/ Draw \/ KeepMin

Spec == Init /\ [][Next]_vars

-----------------------------------------------------------------------------

Seen == {tools[i] : i \in 1..done}
SeenAfterFirst == {tools[i] : i \in 2..done}

(* "The probability of each server got selected is 1/n": for slivers with  *)
(* the flag (the first one's does not matter), at every step of the loop.  *)
RoundRobinIsFair ==
    SeenAfterFirst \subseteq roundrobin =>
        \A h \in Seen : weight[h] * Cardinality(Seen) = Total(Hosts)

(* Whatever flags and order the slivers have, the loop keeps one of them,  *)
(* and of those without flag, only one that Selection says may be kept:    *)
(* the first by FQDN, or one before a sliver with the flag.                *)
KeepsWhatMayBeKept ==
    done > 0 =>
        /\ Total(Seen) > 0
        /\ \A h \in Hosts : weight[h] > 0 =>
               h \in Seen /\ MayBeKept(h, Seen, roundrobin)
=============================================================================
