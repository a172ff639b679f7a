---------------------------- MODULE LeakDetector ----------------------------
(***************************************************************************)
(* What alloc-counter promises, without tables, counters, deadlines, locks *)
(* or scans.  The application allocates blocks at call sites; some of them *)
(* are sampled.  Each sample meets one fate and keeps it: it is freed, it  *)
(* is declared leaked once it is older than Patience, or it is lost (the   *)
(* detector missed what became of it).  A site is announced, and then      *)
(* reported, only for its own leaks, and a leak once found is never taken  *)
(* back.                                                                   *)
(***************************************************************************)
EXTENDS Naturals

CONSTANTS
    Address,
    Site,
    Trace,
    TraceOf(_),  \* the stack trace under which a site is announced
    Patience,
    NoSample

VARIABLES
    now,
    watched,    \* the sample at each address, if any: its site and since when
    freed,      \* of each site: how many samples met this fate
    leaked,
    lost,
    announced,  \* the traces announced as leaks
    report      \* the sites in the last report

vars == <<now, watched, freed, leaked, lost, announced, report>>

Init ==
    /\ now = 0
    /\ watched = [a \in Address |-> NoSample]
    /\ freed = [p \in Site |-> 0]
    /\ leaked = [p \in Site |-> 0]
    /\ lost = [p \in Site |-> 0]
    /\ announced = {}
    /\ report = {}

LeakySites == {p \in Site : leaked[p] > 0}
LeakyTraces == {TraceOf(p) : p \in LeakySites}

addOne(count, p) == [count EXCEPT ![p] = @ + 1]

\* The sample that was at an address is given up, if there is one.
giveUp(a) == IF watched[a] = NoSample THEN UNCHANGED lost ELSE lost' = addOne(lost, watched[a].site)

Watch(a, p) ==
    /\ watched' = [watched EXCEPT ![a] = [site |-> p, since |-> now]]
    /\ giveUp(a)
    /\ UNCHANGED <<now, freed, leaked, announced, report>>

\* A sampled block moves with its age.  Where another sample is thought to be
\* it is lost instead.
Move(a, b) ==
    /\ a # b
    /\ watched[a] # NoSample
    /\ IF watched[b] = NoSample
       THEN watched' = [watched EXCEPT ![b] = watched[a], ![a] = NoSample] /\ UNCHANGED lost
       ELSE watched' = [watched EXCEPT ![a] = NoSample] /\ lost' = addOne(lost, watched[a].site)
    /\ UNCHANGED <<now, freed, leaked, announced, report>>

Free(a) ==
    /\ watched[a] # NoSample
    /\ watched' = [watched EXCEPT ![a] = NoSample]
    /\ freed' = addOne(freed, watched[a].site)
    /\ UNCHANGED <<now, leaked, lost, announced, report>>

Leak(a) ==
    /\ watched[a] # NoSample
    /\ now > watched[a].since + Patience
    /\ watched' = [watched EXCEPT ![a] = NoSample]
    /\ leaked' = addOne(leaked, watched[a].site)
    /\ UNCHANGED <<now, freed, lost, announced, report>>

Announce ==
    /\ announced' = LeakyTraces
    /\ UNCHANGED <<now, watched, freed, leaked, lost, report>>

\* A report comes after the announcement of all it lists.
Report ==
    /\ LeakyTraces \subseteq announced
    /\ report' = LeakySites
    /\ UNCHANGED <<now, watched, freed, leaked, lost, announced>>

Tick == now' = now + 1 /\ UNCHANGED <<watched, freed, leaked, lost, announced, report>>

Next ==
    \/ Tick
    \/ Announce
    \/ Report
    \/ \E a \in Address :
          \/ \E p \in Site : Watch(a, p)
          \/ \E b \in Address : Move(a, b)
          \/ Free(a)
          \/ Leak(a)

Spec == Init /\ [][Next]_vars
=============================================================================
