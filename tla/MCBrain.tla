------------------------------ MODULE MCBrain ------------------------------
(* TLC instances of Brain: memory items a and b in two spaces, f of a kind *)
(* the dashboard does not show.                                            *)
EXTENDS Brain, TLC

CONSTANTS a, b, f, s1, s2

MCSpaceOf == [i \in Items |-> IF i = a THEN s1 ELSE s2]

\* A state Spec reaches: the crawl has loaded a and, if `both`, b, linked to it if
\* `linked`, and has announced it if `announced`, and the feed is subscribed.  The run
\* about browsers starts here.
Loaded(both, linked, announced) ==
    LET e == [src |-> 1, dst |-> 2, ty |-> "REFERENCED"]
        node(i, s) == [kref |-> i, space |-> s, ver |-> 0, revs |-> 1, dead |-> FALSE]
    IN  /\ nodes = IF both THEN <<node(a, 1), node(b, 2)>> ELSE <<node(a, 1)>>
        /\ spaces = IF both THEN <<s1, s2>> ELSE <<s1>>
        /\ by_item = [i \in Items |-> IF i = a THEN 1 ELSE IF i = b /\ both THEN 2 ELSE 0]
        /\ by_space = (s1 :> 1 @@ s2 :> IF both THEN 2 ELSE 0)
        /\ edge_set = IF linked THEN {e} ELSE {}
        /\ edges = [x \in edge_set |-> 1]
        /\ revs = [i \in Items |-> IF i = a \/ (i = b /\ both) THEN <<0>> ELSE <<>>]
        /\ links = IF linked THEN {[src |-> <<a, 1>>, dst |-> <<b, 1>>,
                                    ty |-> "REFERENCED"]} ELSE {}
        /\ log = <<>>
        /\ stream = [connected |-> TRUE, at |-> 0, cursor |-> NoCursor]
        /\ job = Idle /\ diffs = {} /\ lock = IF announced THEN "free" ELSE "crawl"
        /\ crawl = [pc |-> IF announced THEN "done" ELSE "apply",
                    todo |-> {}, read |-> {}, seeds |-> {}, raw |-> {}]
        /\ ready = announced /\ covered = TRUE /\ faults = 0
        /\ chan = [c \in Clients |-> EmptyChan]
        /\ web = [c \in Clients |-> [pc |-> "off", sent |-> FALSE,
                                     nodes |-> [id \in {} |-> 0], edges |-> {},
                                     late |-> FALSE]]

LoadedSpec ==
    /\ \E both, linked, announced \in BOOLEAN : (linked => both) /\ Loaded(both, linked, announced)
    /\ [][Next]_vars

FairLoadedSpec == LoadedSpec /\ Fairness
===========================================================================
