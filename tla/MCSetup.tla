------------------------------ MODULE MCSetup ------------------------------
(***************************************************************************)
(* An instance of Setup for TLC: two commands; an interface that gets a    *)
(* table of its own, one with somebody else's masquerade and one that is   *)
(* disabled; HEALTH and JUDGE; one rule of each kind.                      *)
(***************************************************************************)
EXTENDS Setup, TLC

CONSTANTS p1, p2, i1, i2, i3, susanin, t1

TheTargets ==
    {<<"target", <<"interface", i>> >> : i \in Iface} \cup {<<"target", <<"table", t1>> >>}

Both(x, y) == [p \in Proc |-> IF p = p1 THEN x ELSE y]

\* Two changes of the target or of a setting beside each other; a change of the
\* target before, beside and after an installation; a setup and another attempt.
ThePlans ==
    LET changes == TheTargets \cup {<<"config", <<"profile", "slow">> >>}
    IN  {Both(x, y) : x \in TheTargets, y \in changes}
        \cup {Both(<<"install", None>>, <<"target", <<"interface", i1>> >>),
              Both(<<"setup", None>>, <<"install", None>>)}

\* No table leads anywhere; each leads through one interface; or t1 through both.
TheRoutings == {{}, {<<susanin, i1, "ip">>, <<t1, i2, "iface">>},
                {<<t1, i1, "ip">>, <<t1, i2, "iface">>}}

=============================================================================
