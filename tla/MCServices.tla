----------------------------- MODULE MCServices -----------------------------
(* The parts of Services and of Structures and the registry of the unix     *)
(* build, each one by itself, with what TLC is to try: what the HTTP client *)
(* is asked for, what servers answer, the keys of the registries, what      *)
(* archives are made of.                                                    *)
EXTENDS Services, Structures, Registry

Action(c, h, p, f, s) == [command |-> c, host |-> h, path |-> p, file |-> f, ssl |-> s]
\* Pages to redirect from, without and with a file; a directory whose name begins with that of another; files to send that are missing and found; a host nobody knows; a missing SSL.
ActionLists ==
  {<<Action("GET", "h", <<"d", "e", "p.x">>, "none", FALSE), Action("GET", "h", <<"de", "">>, "none", FALSE)>>,
   <<Action("POST", "h", <<"">>, "missing", FALSE), Action("PUT", "h", <<"q">>, "found", FALSE)>>,
   <<Action("PUT", "w.h", <<"q">>, "missing", FALSE), Action("GET", "w.h", <<"d">>, "none", TRUE)>>,
   <<Action("unknown", "h", <<"">>, "none", FALSE), Action("DELETE", "no", <<"">>, "none", FALSE)>>}

Code(c) == [tag |-> "code", code |-> c]
Length(n) == [tag |-> "length", length |-> n]
Cookie(v, d, p) == [tag |-> "cookie", name |-> "n", value |-> v, domain |-> d, path |-> p]
Location(h, r, u, p, s) == [tag |-> "location", location |-> [host |-> h, root |-> r, up |-> u, path |-> p, ssl |-> s]]
B(n) == [tag |-> "byte", byte |-> n]
\* The same cookie for the host and for a directory; redirections to a place one directory up, to another host, to SSL, and to nowhere.
ServerAnswers ==
  {[lines |-> <<Code(200), Length(2), Cookie(1, "", << >>)>>, body |-> <<B(1), B(2)>>],
   [lines |-> <<Code(404), Cookie(2, "", <<"d">>)>>, body |-> <<B(1)>>],
   [lines |-> <<Code(302), Length(0), Location("", FALSE, 1, <<"b">>, FALSE), Cookie(3, "h", <<"d">>)>>, body |-> << >>],
   [lines |-> <<Code(301), Location("w.h", FALSE, 0, <<"d", "q">>, FALSE)>>, body |-> << >>],
   [lines |-> <<Code(303), Location("", TRUE, 0, <<"">>, TRUE)>>, body |-> << >>],
   [lines |-> <<Code(302)>>, body |-> << >>]}
\* A segment begins with the empty one and with itself, and "de" with "d".
Beginnings ==
  LET segments == {"", "b", "d", "de", "e", "p.x", "q"}
  IN {<<s, t>> \in segments \X segments : s = t \/ s = "" \/ <<s, t>> = <<"d", "de">>}
Domains == {<<"h", "h">>, <<"w.h", "h">>, <<"w.h", "w.h">>}

\* The keys of the Windows registry.
KeyAndSubkey == {<<"a">>, <<"a", "b">>}
\* Those of the unix registry: a key on the top level, a key below it, and one below that.
KeyChain == {<< >>, <<"a">>, <<"a", "b">>, <<"a", "b", "c">>}

\* What archives are made of.
ShortContents == {<<"x">>, <<"x", "y">>}

-----------------------------------------------------------------------------
\* One part, of one of the three modules.
PartsInit ==
  /\ \/ service \in AllServices /\ structure = Out
     \/ service = Off
  /\ ServicesInit /\ StructuresInit /\ Init
PartsNext ==
  \/ ServicesNext /\ UNCHANGED <<structuresVars, vars>>
  \/ StructuresNext /\ UNCHANGED <<servicesVars, vars>>
  \/ service = Off /\ structure = Out /\ Next /\ UNCHANGED <<servicesVars, structuresVars>>
PartsSpec == PartsInit /\ [][PartsNext]_<<servicesVars, structuresVars, vars>>
=============================================================================
