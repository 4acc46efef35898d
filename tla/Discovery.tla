------------------------------- MODULE Discovery -------------------------------
(***************************************************************************)
(* The start of the collector between Capabilities and the first           *)
(* collection: DiscoverAndExpand of internal/collector/discovery.go turns  *)
(* the paths of the configuration with a {network_instance} template into  *)
(* one path per network instance the switch reports, for BGP only where a  *)
(* probe finds BGP.  A start that fails ends the process; systemd starts   *)
(* it again.                                                               *)
(*                                                                         *)
(* An answer to the discovery request is a sequence of updates.  Of an     *)
(* update only these matter: the instance its path names (key), the        *)
(* instances its value names (in), and whether the value is empty (blank). *)
(***************************************************************************)
EXTENDS Naturals, SequencesExt

CONSTANTS Instance,    \* network instances of the switch
          HasBGP,      \* those with BGP
          Path,        \* configured paths, in order: [template, bgp, enabled]
          MaxUpdates,  \* bound on the updates of an answer
          NoName       \* stands for the empty string

ASSUME DiscoveryAssumption == /\ IsFiniteSet(Instance) /\ NoName \notin Instance
                              /\ HasBGP \subseteq Instance
                              /\ Path \in Seq([template : BOOLEAN, bgp : BOOLEAN, enabled : BOOLEAN])
                              /\ \E i \in DOMAIN Path : Path[i].enabled
                              /\ MaxUpdates \in Nat

VARIABLES pc,        \* where DiscoverAndExpand is
          notifs,    \* updates of the answer at hand
          names,     \* instances discovered, in order
          at, ni,    \* path and instance the expansion is at
          expanded,  \* paths of the result: [path, ni], ni # NoName if made of a template
          failure,   \* why the start failed
          unprobed   \* history: instances dropped from a path by a failed probe: [path, ni]

vars == <<pc, notifs, names, at, ni, expanded, failure, unprobed>>

IsTemplate(i) == Path[i].template /\ Path[i].enabled

Init == /\ pc = "start" /\ notifs = <<>> /\ names = <<>> /\ at = 1 /\ ni = 1
        /\ expanded = <<>> /\ failure = "none" /\ unprobed = {}

Fatal(why) == pc' = "failed" /\ failure' = why

-----------------------------------------------------------------------------
(* What a switch may answer.  A Get is about every instance: by path, with *)
(* one update or more for each, or as one list.  Subscribe ONCE comes with *)
(* a notification per instance, or with one for all of them, which         *)
(* NormalizeSubscribeNotifications folds into a map that names nobody.     *)

Update(key, in) == [key |-> key, in |-> in, blank |-> FALSE]

Nothing == {<<>>}
Blank   == {<< [key |-> NoName, in |-> <<>>, blank |-> TRUE] >>}
Keyed   == {[i \in DOMAIN s |-> Update(s[i], <<>>)] :
              s \in {q \in SeqOf(Instance, MaxUpdates) : ToSet(q) = Instance}}
Listed  == {<< Update(NoName, s) >> : s \in SetToSeqs(Instance)}
Folded  == {<< Update(NoName, <<>>) >>}

OnceAnswer == Nothing \cup Keyed \cup Folded

HasNonEmptyValues(us) == \E i \in DOMAIN us : ~us[i].blank

-----------------------------------------------------------------------------
(* discoverNetworkInstances.                                               *)

\* Nothing is asked when no enabled path has a template.
Begin ==
  /\ pc = "start"
  /\ IF \E i \in DOMAIN Path : IsTemplate(i)
     THEN pc' = "get" /\ UNCHANGED expanded
     ELSE pc' = "collecting" /\ expanded' = [i \in DOMAIN Path |-> [path |-> i, ni |-> NoName]]
  /\ UNCHANGED <<notifs, names, at, ni, failure, unprobed>>

\* Both kinds of request lead to the test for empty values.
Take(us) == /\ notifs' = us
            /\ pc' = IF us # <<>> /\ ~HasNonEmptyValues(us) THEN "blank" ELSE "extract"

GetAnswers(answers) ==
  /\ pc = "get" /\ \E us \in answers : Take(us)
  /\ UNCHANGED <<names, at, ni, expanded, failure, unprobed>>

GetNames   == GetAnswers(Keyed \cup Listed)
GetNothing == GetAnswers(Nothing \cup Blank)

GetFails ==
  /\ pc = "get" /\ pc' = "once"
  /\ UNCHANGED <<notifs, names, at, ni, expanded, failure, unprobed>>

OnceAnswers ==
  /\ pc = "once" /\ \E us \in OnceAnswer : Take(us)
  /\ UNCHANGED <<names, at, ni, expanded, failure, unprobed>>

OnceFails ==
  /\ pc = "once" /\ Fatal("rpc")
  /\ UNCHANGED <<notifs, names, at, ni, expanded, unprobed>>

\* An answer without content is replaced by that of Subscribe ONCE, if any.
BlankOnceAnswers ==
  /\ pc = "blank" /\ \E us \in OnceAnswer : notifs' = IF us = <<>> THEN notifs ELSE us
  /\ pc' = "extract"
  /\ UNCHANGED <<names, at, ni, expanded, failure, unprobed>>

BlankOnceFails ==
  /\ pc = "blank" /\ pc' = "extract"
  /\ UNCHANGED <<notifs, names, at, ni, expanded, failure, unprobed>>

\* Each name once, in order of appearance.
\* Seeded fault: seen is not looked at.
DistinctAll(s) == SelectSeq(s, LAMBDA n : n # NoName)

AddName(ns, n) == IF n = NoName \/ Contains(ns, n) THEN ns ELSE Append(ns, n)

Distinct(s) == FoldLeft(AddName, <<>>, s)

\* The names in the paths; those in the values only if there are none.
NamesOf(us) ==
  LET keys == Distinct([i \in DOMAIN us |-> us[i].key])
  IN  IF keys # <<>> THEN keys ELSE Distinct(FlattenSeq([i \in DOMAIN us |-> us[i].in]))

Extract ==
  /\ pc = "extract"
  /\ IF NamesOf(notifs) = <<>>
     THEN Fatal("nothing") /\ UNCHANGED names
     ELSE pc' = "expand" /\ names' = NamesOf(notifs) /\ UNCHANGED failure
  /\ notifs' = <<>>
  /\ UNCHANGED <<at, ni, expanded, unprobed>>

-----------------------------------------------------------------------------
(* The expansion.                                                          *)

\* Paths without a template, and disabled ones, are passed through.
PassThrough ==
  /\ pc = "expand" /\ at <= Len(Path) /\ ~IsTemplate(at)
  /\ expanded' = Append(expanded, [path |-> at, ni |-> NoName])
  /\ at' = at + 1
  /\ UNCHANGED <<pc, notifs, names, ni, failure, unprobed>>

ExpandAll ==
  /\ pc = "expand" /\ at <= Len(Path) /\ IsTemplate(at) /\ ~Path[at].bgp
  /\ expanded' = expanded \o [k \in DOMAIN names |-> [path |-> at, ni |-> names[k]]]
  /\ at' = at + 1
  /\ UNCHANGED <<pc, notifs, names, ni, failure, unprobed>>

StartProbes ==
  /\ pc = "expand" /\ at <= Len(Path) /\ IsTemplate(at) /\ Path[at].bgp
  /\ pc' = "probe" /\ ni' = 1
  /\ UNCHANGED <<notifs, names, at, expanded, failure, unprobed>>

\* The next instance, or the next path after the last one.
NextInstance == IF ni = Len(names) THEN pc' = "expand" /\ at' = at + 1 /\ ni' = 1
                                   ELSE pc' = "probe" /\ ni' = ni + 1 /\ UNCHANGED at

\* A probe that is answered finds BGP where there is BGP.
ProbeAnswered ==
  /\ expanded' = IF names[ni] \in HasBGP THEN Append(expanded, [path |-> at, ni |-> names[ni]])
                                         ELSE expanded
  /\ NextInstance
  /\ UNCHANGED <<notifs, names, failure, unprobed>>

ProbeAnswers == pc = "probe" /\ ProbeAnswered

ProbeFails ==
  /\ pc = "probe" /\ pc' = "probeOnce"
  /\ UNCHANGED <<notifs, names, at, ni, expanded, failure, unprobed>>

ProbeOnceAnswers == pc = "probeOnce" /\ ProbeAnswered

\* The instance is dropped from this path, the others are still probed.
\* Seeded fault: the instances after it are dropped as well.
ProbeOnceFailsBreak ==
  /\ pc = "probeOnce"
  /\ unprobed' = unprobed \cup {[path |-> at, ni |-> names[ni]]}
  /\ pc' = "expand" /\ at' = at + 1 /\ ni' = 1
  /\ UNCHANGED <<notifs, names, expanded, failure>>

ProbeOnceFails ==
  /\ pc = "probeOnce"
  /\ unprobed' = unprobed \cup {[path |-> at, ni |-> names[ni]]}
  /\ NextInstance
  /\ UNCHANGED <<notifs, names, expanded, failure>>

\* The whole result is looked through for templates, disabled paths included.
Unresolved == \E k \in DOMAIN expanded : expanded[k].ni = NoName /\ Path[expanded[k].path].template

Check ==
  /\ pc = "expand" /\ at > Len(Path)
  /\ IF Unresolved THEN Fatal("unresolved") ELSE pc' = "collecting" /\ UNCHANGED failure
  /\ UNCHANGED <<notifs, names, at, ni, expanded, unprobed>>

\* log.Fatalf; systemd starts the process again (Restart=on-failure).
\* Seeded fault: a failed start exits with status 0, and is not repeated.
RestartNever == pc = "failed" /\ UNCHANGED vars

Restart ==
  /\ pc = "failed"
  /\ pc' = "start" /\ notifs' = <<>> /\ names' = <<>> /\ at' = 1 /\ ni' = 1
  /\ expanded' = <<>> /\ failure' = "none" /\ unprobed' = {}

\* Discovery is not repeated while the process runs.
Collecting == pc = "collecting" /\ UNCHANGED vars

Discover == \/ Begin \/ GetNames \/ GetNothing \/ GetFails \/ OnceAnswers \/ OnceFails
            \/ BlankOnceAnswers \/ BlankOnceFails \/ Extract

Expand == \/ PassThrough \/ ExpandAll \/ StartProbes \/ ProbeAnswers \/ ProbeFails
          \/ ProbeOnceAnswers \/ ProbeOnceFails \/ Check

Next == Discover \/ Expand \/ Restart \/ Collecting

Spec == Init /\ [][Next]_vars

\* Fairness.  Every request has a time-out, and systemd restarts for ever.
\* Requests may fail any number of times; a Get that names the instances is
\* answered in the end if it is asked again and again.
Fairness == /\ WF_vars(Discover) /\ WF_vars(Expand) /\ WF_vars(Restart)
            /\ SF_vars(GetNames)

FairSpec == Spec /\ Fairness

-----------------------------------------------------------------------------
(* Properties.                                                             *)

Wanted == {[path |-> i, ni |-> n] : i \in {j \in DOMAIN Path : IsTemplate(j)}, n \in Instance}

\* When collection starts every pair of an enabled template and an instance of
\* the switch is accounted for exactly once: it is collected, or it is about
\* BGP and the instance has none, or the probe for it failed (main.go:84: the
\* query is to "find all VRFs/network-instances").
InstancesAccounted ==
  pc = "collecting" =>
    \A w \in Wanted :
      LET collected == w \in ToSet(expanded)
          without   == Path[w.path].bgp /\ w.ni \notin HasBGP
      IN  /\ collected \/ without \/ w \in unprobed
          /\ ~(collected /\ (without \/ w \in unprobed))

\* The result has the paths in the order of the configuration, each path and
\* instance once, although a name may be reported by many updates: a path that
\* is listed twice would be collected and posted twice.
ConfigOrder ==
  /\ \A j, k \in DOMAIN expanded : j < k => /\ expanded[j].path <= expanded[k].path
                                            /\ expanded[j] # expanded[k]
  /\ pc = "collecting" => \A i \in DOMAIN Path : ~IsTemplate(i) =>
                            [path |-> i, ni |-> NoName] \in ToSet(expanded)

\* A switch whose instances can be asked for gets its collector in the end,
\* however many starts fail.
StartsInTheEnd == <>(pc = "collecting")
=============================================================================
