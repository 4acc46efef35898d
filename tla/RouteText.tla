------------------------------- MODULE RouteText ------------------------------
(***************************************************************************)
(* parseIPRoutes of the Cisco Nexus route parser: show ip route, over all  *)
(* VRFs.  The parts of a next hop are told apart by what they look like.   *)
(***************************************************************************)
EXTENDS TextParser

CONSTANTS VRF,        \* names of VRFs
          HopKinds,   \* of a next hop: the parts printed after its address
          MaxRoutes,  \* bound on the routes of a text
          MaxHops     \* bound on the next hops of a route

\* A part: what it is, whether one of the parser's rules for such parts
\* knows it, and whether it contains a w or a d.
Part == [what : {"interface", "preference", "age", "protocol", "attribute"}, known : BOOLEAN,
         lettered : BOOLEAN, name : STRING]

Route == [vrf : VRF, attached : BOOLEAN, hops : BoundedSeq(HopKinds, MaxHops)]

-----------------------------------------------------------------------------
(* What the switch prints: a header per VRF, a line per route and per hop. *)

Header(rs, i) == IF i = 1 \/ rs[i-1].vrf # rs[i].vrf
                 THEN << [kind |-> "vrf", vrf |-> rs[i].vrf], [kind |-> "legend"] >> ELSE <<>>

Printout(rs, i) ==
  Header(rs, i) \o << [kind |-> "network", network |-> i, attached |-> rs[i].attached] >>
  \o [j \in DOMAIN rs[i].hops |-> [kind |-> "via", via |-> <<i, j>>, parts |-> rs[i].hops[j]]]

-----------------------------------------------------------------------------
(* The loop.  scratch is the VRF of the last header.                       *)

Init ==
  /\ printed \in BoundedSeq(Route, MaxRoutes)
  /\ text = << [kind |-> "legend"] >> \o FlattenSeq([i \in DOMAIN printed |-> Printout(printed, i)])
  /\ current = Nil /\ scratch = "default" /\ out = <<>>

\* Empty lines, the legend, the command.
Legend == Ignores({"legend"})

Vrf == /\ Reads({"vrf"})
       /\ scratch' = Line.vrf /\ UNCHANGED <<current, out>>

\* The route before it is complete.
Network ==
  /\ Reads({"network"})
  /\ Save
  /\ current' = [vrf |-> scratch, network |-> Line.network,
                 type |-> IF Line.attached THEN "attached" ELSE "", hops |-> <<>>]
  /\ UNCHANGED scratch

NewHop(via) == [via |-> via, interface |-> "", preference |-> "", age |-> "", protocol |-> "",
                attributes |-> <<>>]

\* What a part is taken for; the rules are tried in this order.
TakenFor(p) ==
  IF p.what \in {"interface", "preference"} /\ p.known THEN p.what
  ELSE IF p.lettered THEN "age"
  ELSE IF p.what \in {"protocol", "attribute"} /\ p.known THEN p.what ELSE "nothing"

\* Seeded fault: an attribute replaces the one before it.
FileOverwrites(hop, p) ==
  CASE TakenFor(p) = "nothing"   -> hop
    [] TakenFor(p) = "attribute" -> [hop EXCEPT !.attributes = <<p.name>>]
    [] OTHER                     -> [hop EXCEPT ![TakenFor(p)] = p.name]

File(hop, p) ==
  CASE TakenFor(p) = "nothing"   -> hop
    [] TakenFor(p) = "attribute" -> [hop EXCEPT !.attributes = Append(@, p.name)]
    [] OTHER                     -> [hop EXCEPT ![TakenFor(p)] = p.name]

\* The first protocol that is recognized decides what the route is called.
determineRouteType(protocol, attached) ==
  IF attached THEN "attached" ELSE IF protocol \in {"direct", "local", "hsrp"} THEN protocol ELSE "bgp"

TypeAfter(type, parts) ==
  FoldLeft(LAMBDA t, p : IF TakenFor(p) = "protocol" /\ t \in {"", "attached"}
                         THEN determineRouteType(p.name, t = "attached") ELSE t, type, parts)

Via ==
  /\ current # Nil /\ Reads({"via"})
  /\ current' = [current EXCEPT !.hops = Append(@, FoldLeft(File, NewHop(Line.via), Line.parts)),
                                !.type = TypeAfter(@, Line.parts)]
  /\ UNCHANGED <<scratch, out>>

\* The last route.
End == AtEnd /\ current # Nil /\ Save /\ current' = Nil /\ UNCHANGED scratch

Next == Legend \/ Vrf \/ Network \/ Via \/ End \/ (Parsed /\ UNCHANGED tvars)

Spec == Init /\ [][Next]_tvars

-----------------------------------------------------------------------------
(* Properties.                                                             *)

\* Every route is reported once, in order, in the VRF of its section and
\* with all its next hops.
RoutesKept ==
  /\ Parsed => Len(out) = Len(printed)
  /\ \A i \in DOMAIN out : LET r == printed[i] IN
       /\ out[i].vrf = r.vrf /\ out[i].network = i
       /\ [j \in DOMAIN out[i].hops |-> out[i].hops[j].via] = [j \in DOMAIN r.hops |-> <<i, j>>]

Printed(h, what) == LET ps == SelectSeq(h, LAMBDA p : p.what = what /\ p.known)
                    IN  [j \in DOMAIN ps |-> ps[j].name]

\* What the parser knows of a next hop is reported in the field it belongs
\* to, unless the age rule takes a protocol first; then the age is lost too.
HopsFiled ==
  \A i \in DOMAIN out : \A j \in DOMAIN out[i].hops :
    LET hop == out[i].hops[j]  h == printed[i].hops[j]
        misread == \E k \in DOMAIN h : h[k].what = "protocol" /\ h[k].lettered
    IN  /\ hop.attributes = Printed(h, "attribute")
        /\ \A k \in DOMAIN h : h[k].what \in {"interface", "preference"} /\ h[k].known =>
             hop[h[k].what] = h[k].name
        /\ ~misread => \A k \in DOMAIN h :
             /\ h[k].what = "age" /\ h[k].lettered => hop.age = h[k].name
             /\ h[k].what = "protocol" /\ h[k].known => hop.protocol = h[k].name

\* The name of a route (README.md:142-151, "Route Types"): attached if the
\* switch says so, else the protocol of the first next hop that has a known
\* one, and never a protocol that none of its next hops has.  Of a route with a
\* protocol that the age rule takes only the last is asked: by the README it
\* were named after that protocol too.
TypeOfRoute ==
  \A i \in DOMAIN out :
    LET r         == printed[i]
        protocols == SelectSeq(FlattenSeq(r.hops), LAMBDA p : p.what = "protocol" /\ p.known)
        named(k)  == determineRouteType(protocols[k].name, FALSE)
        misread   == \E k \in DOMAIN protocols : protocols[k].lettered
    IN  IF r.attached THEN out[i].type = "attached"
        ELSE /\ out[i].type \in {"", "unknown"} \cup {named(k) : k \in DOMAIN protocols}
             /\ protocols # <<>> /\ ~misread => out[i].type = named(1)
=============================================================================
