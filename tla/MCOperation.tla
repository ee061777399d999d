---------------------------- MODULE MCOperation ----------------------------
(* An instance of Operation for TLC: the tokens and the settings.          *)
EXTENDS Operation, TLC

Signed(flaw, guest, allowed) ==
    [id |-> 1, static |-> FALSE, flaw |-> flaw, allowed |-> allowed, guest |-> guest]

FullMember == Signed("none", FALSE, TRUE)
Guest == Signed("none", TRUE, TRUE)
Static == [id |-> 2, static |-> TRUE, flaw |-> "none", allowed |-> TRUE, guest |-> FALSE]

(* One of each kind a gate stops, and those it lets pass; an unreadable *)
(* token is refused where no token is.                                 *)
MCTokens == {FullMember, Guest, Static,
             Signed("unverified", FALSE, TRUE), Signed("none", FALSE, FALSE)}

Mode(m, i, p) == [scoped_tokens |-> m, instance |-> i, provenance |-> p]

MCConfigurations == {Mode("auto", TRUE, TRUE), Mode("auto", FALSE, FALSE),
                     Mode("reject", TRUE, FALSE), Mode("self", TRUE, FALSE)}

Symmetry == Permutations(Tasks)
============================================================================
