----------------------------- MODULE Isolation -----------------------------
(***************************************************************************)
(* What the resolver registry promises (docs/architecture/isolation.md):   *)
(* every organisation has a gate of its own to its directory, and a step   *)
(* concerns the gate of one organisation only.  A gate bounds the requests *)
(* inside it and has a circuit of three states.  The circuit judges the    *)
(* directory by the requests it asked it in its present state, each once:  *)
(* by failures in a row while it is closed, by its probes while it is      *)
(* half-open.  Its time being over is all that lets an open circuit ask    *)
(* again, and a gate starts anew only with other limits.                   *)
(*                                                                         *)
(* In one point this is the code's promise and not the document's: the     *)
(* document closes a half-open circuit on the first success (:57-73), the  *)
(* code on the last of halfOpenProbes successes (Succeed, below).  With    *)
(* one probe, the default, they agree.                                     *)
(***************************************************************************)
EXTENDS Naturals

CONSTANTS Orgs, Configs, None

VARIABLE gate

\* limits: None before the first use.  inside: requests let in.  state and
\* cooled: the circuit, and whether its time in "open" is over.  count:
\* failures in a row, or successes of probes.  asked: requests out.
Fresh(limits) == [limits |-> limits, inside |-> 0, state |-> "closed", cooled |-> FALSE,
                  count |-> 0, asked |-> 0]

\* A circuit that turns to another state expects nothing of what it asked.
Turned(g, state) == [limits |-> g.limits, inside |-> g.inside, state |-> state,
                     cooled |-> FALSE, count |-> 0, asked |-> 0]

\* The circuit as a request finds it.
Met(g) == IF g.state = "open" /\ g.cooled THEN Turned(g, "halfOpen") ELSE g

Becomes(o, g) == gate' = [gate EXCEPT ![o] = g]

Init == gate = [o \in Orgs |-> Fresh(None)]

\* The first use, and a changed configuration.
Replace(o) == \E c \in Configs \ {gate[o].limits} : Becomes(o, Fresh(c))

Enter(o) ==
    /\ gate[o].limits # None
    /\ gate[o].inside < gate[o].limits.maxConcurrency
    /\ Becomes(o, [gate[o] EXCEPT !.inside = @ + 1])

\* Nobody leaves whose request is out.
Leave(o) ==
    /\ gate[o].asked < gate[o].inside
    /\ Becomes(o, [gate[o] EXCEPT !.inside = @ - 1])

\* Somebody inside asks the directory.
Ask(o) ==
    LET g == Met(gate[o]) IN
    /\ g.asked < g.inside
    /\ \/ g.state = "closed"
       \/ g.state = "halfOpen" /\ g.count + g.asked < g.limits.halfOpenProbes
    /\ Becomes(o, [g EXCEPT !.asked = @ + 1])

\* A half-open circuit closes once all its probes have succeeded, which is what
\* the breaker does with halfOpenProbes as its MaxRequests (registry.go:89).
Succeed(o) ==
    LET g == [gate[o] EXCEPT !.asked = @ - 1] IN
    /\ gate[o].asked > 0
    /\ \/ g.state = "closed" /\ Becomes(o, [g EXCEPT !.count = 0])
       \/ /\ g.state = "halfOpen"
          /\ Becomes(o, IF g.count + 1 < g.limits.halfOpenProbes
                        THEN [g EXCEPT !.count = @ + 1]
                        ELSE Turned(g, "closed"))

Fail(o) ==
    LET g == [gate[o] EXCEPT !.asked = @ - 1] IN
    /\ gate[o].asked > 0
    /\ g.state \in {"closed", "halfOpen"}
    /\ Becomes(o, IF g.state = "closed" /\ g.count + 1 < g.limits.failureThreshold
                  THEN [g EXCEPT !.count = @ + 1]
                  ELSE Turned(g, "open"))

\* The time of an open circuit is over ...
Cool(o) ==
    /\ gate[o].state = "open" /\ ~gate[o].cooled
    /\ Becomes(o, [gate[o] EXCEPT !.cooled = TRUE])

\* ... and whoever looks finds it half-open.
HalfOpen(o) == Met(gate[o]) # gate[o] /\ Becomes(o, Met(gate[o]))

Next == \E o \in Orgs :
    \/ Replace(o) \/ Enter(o) \/ Leave(o) \/ Ask(o) \/ Succeed(o) \/ Fail(o)
    \/ Cool(o) \/ HalfOpen(o)

Spec == Init /\ [][Next]_gate
=============================================================================
