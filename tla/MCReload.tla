------------------------------ MODULE MCReload ------------------------------
(* Instances of Reload for TLC: which client sends which request.          *)
EXTENDS Reload, TLC

CONSTANTS p1, p2, a1, x, y

Body(l, inb, rest, ns) == [load |-> l, inbound |-> inb, api |-> rest, dns |-> ns]

MCStart == Body("good", x, {x}, {x})

Send(b1, b2, b3) == p1 :> b1 @@ p2 :> b2 @@ a1 :> b3
Other(l) == Body(l, y, {}, {})
More == Body("good", x, {x}, {x, y})

(* Two PUTs and a PATCH or a GET.  A PUT has the addresses of generation 0 *)
(* again, others, more of them, or none; or a config that fails.           *)
MCMixed ==
    {Send(MCStart, More, Other(l)) : l \in {"rebuild", "bind"}} \cup
    {Send(Body("remote", x, {}, {y}), MCStart, Other(l)) : l \in {"plain", "get"}} \cup
    {Send(MCStart, Other("parse_error"), Other("bind")),
     Send(MCStart, Other("create_error"), Other("get")),
     Send(MCStart, Other("absent"), Other("invalid"))}

MCTwoPuts == {p1 :> MCStart @@ p2 :> MCStart}
=============================================================================
