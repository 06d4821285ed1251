------------------------------ MODULE MCSession -----------------------------
(* node.cfg files with up to four nodes on two hosts, and two plugins. *)
EXTENDS Session, TLC

CONSTANTS p1, p2

MCLower == [n \in {"zeek", "b", "c", "m", "l", "p", "r", "w", "W"} |-> IF n = "W" THEN "w" ELSE n]
MCAddr == [local |-> "127.0.0.1", near |-> "192.0.2.1", far |-> "192.0.2.9"]

Section(name, type, host) ==
  [name |-> name, type |-> type, host |-> host, lb |-> <<>>, lb_method |-> "none",
   lb_interfaces |-> <<>>, interface |-> "none", pin_cpus |-> <<>>]
Balanced(name, host, procs, method) ==
  [Section(name, "worker", host) EXCEPT !.lb = <<procs>>, !.lb_method = method]

M == Section(<<"m">>, "manager", "near")
L == Section(<<"l">>, "logger", "near")
P == Section(<<"p">>, "proxy", "near")
W2 == Section(<<"w", 2>>, "worker", "far")
Pair == [Balanced(<<"w">>, "far", 2, "interfaces") EXCEPT !.lb_interfaces = <<"eth0", "eth1">>, !.pin_cpus = <<0, 1>>]

Alone == <<Section(<<"zeek">>, "standalone", "near")>>
Small == <<P, W2, L, M>>
Full == <<Pair, L, M, P>>
Rings == <<Balanced(<<"r">>, "far", 2, "pf_ring"), M, P>>

\* w-1 and W-1 differ only by case, there is no proxy, and not all are on localhost
SameName == <<M, P, Pair, Section(<<"W", 1>>, "worker", "far")>>
NoProxy == <<M, W2>>
Mixed == <<Section(<<"b">>, "manager", "local"), Section(<<"c">>, "proxy", "near")>>

MCFirst == {Alone, Full, SameName, Mixed}
MCEdited == {Small, Rings, NoProxy}
MCFiles == MCFirst \cup MCEdited

MCCalls == {<<"start", "all">>, <<"stop", "worker">>, <<"restart", "worker">>, <<"clean restart", "all">>,
            <<"check", "all">>, <<"df", "all">>, <<"netstats", "all">>, <<"print", "manager">>, <<"install", "all">>,
            <<"deploy", "all">>, <<"nodes", "all">>}

MCNodes == AllNames
MCHost == [n \in AllNames |-> (CHOOSE s \in Sections : n \in NamesOf(s)).host]

MCLoaded == <<p1, p2>>
MCVetoes == [p \in {p1, p2} |-> IF p = p1 THEN {} ELSE {"deploy", "install"}]
MCDrops == [p \in {p1, p2} |-> IF p = p1 THEN [stop |-> {<<"p">>}, netstats |-> {<<"w", 1>>}]
                              ELSE [stop |-> {<<"w", 1>>}]]
=============================================================================
