--------------------------- MODULE MCFrrConfigSync ---------------------------
(***************************************************************************)
(* Instances of FrrConfigSync for TLC.  frr.conf has two valid contents    *)
(* and one that vtysh rejects, daemons has two, vtysh.conf is optional.    *)
(***************************************************************************)
EXTENDS FrrConfigSync

MCFiles     == {"frr.conf", "daemons", "vtysh.conf"}
MCContent   == {"c1", "c2", "bad", "d1", "d2", "v1"}
MCValidConf == {"c1", "c2"}

Config(conf, daemons, vtysh) ==
    [f \in MCFiles |-> CASE f = "frr.conf" -> conf
                         [] f = "daemons"  -> daemons
                         [] OTHER          -> vtysh]

MCImageConfig == Config("c1", "d1", None)

\* What an operator who follows the README publishes: daemons is always
\* there; one generation carries a frr.conf that does not validate and one
\* has none.
MCGenerations ==
    {Config("c1", "d1", None), Config("c2", "d1", "v1"),
     Config("c1", "d2", None), Config("bad", "d2", "v1"),
     Config(None, "d1", "v1")}

=============================================================================
