------------------------- MODULE MCNetworkConfigSync -------------------------
(***************************************************************************)
(* Instances of NetworkConfigSync for TLC: two state files; the second may *)
(* be missing, broken or wanting an interface that never comes up.         *)
(***************************************************************************)
EXTENDS NetworkConfigSync, TLC

MCOrder   == <<"a.yml", "b.yml">>
MCContent == {"x1", "x2", "y1", "bad", "stuck"}
MCBadYaml == {"bad"}
MCStuck   == {"stuck"}

Docs2(a, b) == ("a.yml" :> a) @@ ("b.yml" :> b)

MCGenerations ==
    {Docs2("x1", None), Docs2("x2", "y1"), Docs2("x1", "bad"),
     Docs2("x2", "stuck")}

=============================================================================
