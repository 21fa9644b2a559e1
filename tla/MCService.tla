----------------------------- MODULE MCService -----------------------------
(* Two policy names, a group of its own and a shared one, and the ways to   *)
(* annotate a Service: not at all, with policies over one of two ports,    *)
(* with another group and no policy, with the policies but no source       *)
(* groups, and with a list of ports that does not parse.  Users wrote the  *)
(* policy p; the operator may generate q, or may not.                      *)
EXTENDS Service

Config(exposed, pols, src, ports, filter, valid, groups) ==
    [exposed |-> exposed, pols |-> pols, src |-> src, ports |-> ports,
     filter |-> filter, valid |-> valid, groups |-> groups]
MCFirst == Config(TRUE, {"p", "q"}, TRUE, <<1, 2>>, {2}, TRUE, {"own", "shared"})
MCConfigs == {MCFirst,
              Config(FALSE, {}, FALSE, <<1>>, {}, TRUE, {"own"}),
              Config(TRUE, {}, FALSE, <<1>>, {}, TRUE, {"shared"}),
              Config(TRUE, {"p", "q"}, FALSE, <<1>>, {}, TRUE, {"own"}),
              Config(TRUE, {"q"}, TRUE, <<1>>, {}, FALSE, {"own"})}

MCSetups == [auto : BOOLEAN, written : {{"p"}}]
=============================================================================
