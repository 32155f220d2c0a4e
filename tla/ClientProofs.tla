---------------------------- MODULE ClientProofs ----------------------------
(***************************************************************************)
(* The invariants of Client, for every configuration file, every           *)
(* combination of options and any number of commands.                      *)
(***************************************************************************)
EXTENDS Client, ConfigProofs

-----------------------------------------------------------------------------
(* The inductive invariant *)

\* The families over which the options ask for a sequence at all.
Asked(f) ==
    CASE AddrMode = "TryBoth" -> opts.host \in {"name", f}
      [] AddrMode = "Both" -> TRUE
      [] OTHER -> AddrMode = f

\* The resources that a command with these file and options may ask for.
Candidates ==
    LET c == ConfigOf(file, "Client").val
    IN  IF ConfigOf(file, "Client").ok
        THEN resource_id_by_port(c, opts.port, IF opts.user = NoUser THEN c.user ELSE opts.user)
        ELSE {}

\* A command that has got as far as the lookup has read the file as ConfigOf
\* says, and runs a sequence only with a resource in hand.
Progress ==
    /\ pc # "idle" => /\ cmd \in {"Knock", "Close"} /\ exit = "none"
                      /\ ConfigOf(file, "Client") = Ok(conf)
    /\ pc = "loaded" => resource = NoResource
    /\ pc = "run" => resource # NoResource
    /\ resource # NoResource => resource \in Candidates
    /\ resource = NoResource => outcome = Untried

\* Only families that were asked for are tried; with --ipv4 and --ipv6, IPv4
\* only after a success over IPv6.
Order ==
    /\ \A f \in Families : outcome[f] # "untried" => Asked(f)
    /\ AddrMode = "Both" /\ outcome["Ipv4"] # "untried" => outcome["Ipv6"] = "ok"

\* A command ends when nothing is left to try.
Ended == Ran => exit = Result /\ \A f \in Families : ~Wanted(f)

\* The doors that a knock may have opened are those of the same options; a close has
\* shut those that it reports, and a knock opened them.
Doors ==
    /\ \A p \in opened : Asked(p[1]) /\ p[2] \in Candidates
    /\ cmd = "Close" => \A f \in Families : outcome[f] = "ok" => <<f, resource>> \notin open
    /\ cmd = "Knock" => \A f \in Families : outcome[f] = "ok" => <<f, resource>> \in open

IndInv ==
    /\ TypeOK
    /\ file \in File /\ opts \in Options
    /\ ConfigOk(conf)
    /\ NoClientPanic
    /\ Progress /\ Order /\ Ended /\ Doors

-----------------------------------------------------------------------------
(* Lemmas about the options and the file *)

LEMMA Mode ==
    ASSUME opts \in Options
    PROVE  AddrMode \in {"TryBoth", "Both", "Ipv6", "Ipv4"}
BY DEF Options, AddrMode

\* Neither the options nor the file change what is asked for.
LEMMA SameCase ==
    ASSUME file' = file, opts' = opts
    PROVE  /\ AddrMode' = AddrMode /\ Candidates' = Candidates
           /\ \A f : Asked(f)' <=> Asked(f)
<1>1. AddrMode' = AddrMode
  BY DEF AddrMode
<1>2. Candidates' = Candidates
  BY DEF Candidates
<1> QED BY <1>1, <1>2 DEF Asked

\* Exactly one protocol is selected, as Client::new asserts.
LEMMA OneProtocol ==
    ASSUME opts \in Options, ConfigOk(conf)
    PROVE  to_control_port(conf.port) \in {{"tcp"}, {"udp"}}
BY DEF Options, ConfigOk, to_control_port

\* The file and the options determine the resource.
LEMMA OneCandidate ==
    ASSUME opts \in Options, NEW r \in Candidates, NEW s \in Candidates
    PROVE  r = s
<1> DEFINE c == ConfigOf(file, "Client").val
           user == IF opts.user = NoUser THEN c.user ELSE opts.user
<1>1. Candidates = resource_id_by_port(c, opts.port, user) /\ ConfigOf(file, "Client").ok
  BY DEF Candidates
<1>2. ConfigOk(c)
  BY <1>1, AcceptedOk DEF Err
<1>3. \A p, q \in WithPort(c.resources, opts.port) : p = q
  BY <1>2 DEF ConfigOk, Options
<1> HIDE DEF c, user
<1> QED BY <1>1, <1>3 DEF resource_id_by_port

\* A family that is wanted is asked for.
LEMMA WantedAsked ==
    ASSUME opts \in Options, NEW f \in Families, Wanted(f)
    PROVE  /\ Asked(f)
           /\ AddrMode = "Both" /\ f = "Ipv4" => outcome["Ipv6"] = "ok"
BY Mode DEF Wanted, knock_wants, close_wants, Asked, Options, Families

-----------------------------------------------------------------------------
(* Every step preserves the invariant *)

LEMMA InitInv == Init => IndInv
<1> SUFFICES ASSUME Init PROVE IndInv
  OBVIOUS
<1>1. file \in File /\ opts \in Options
  BY ClientAssumption DEF Init
<1>2. ConfigOk(conf)
  BY NewConfigOk DEF Init
<1>3. \A f \in Families : outcome[f] = "untried"
  BY DEF Init, Untried
<1>4. TypeOK
  BY <1>2, ClientAssumption DEF Init, TypeOK, ConfigOk, Untried
<1>5. Progress /\ Ended /\ NoClientPanic
  BY DEF Init, Progress, Ended, Ran, NoClientPanic
<1>6. Order
  BY <1>3 DEF Order, Families
<1>7. Doors
  BY DEF Init, Doors
<1> QED BY <1>1, <1>2, <1>4, <1>5, <1>6, <1>7 DEF IndInv

LEMMA StartInv ==
    ASSUME IndInv, NEW c \in {"Knock", "Close"}, Start(c)
    PROVE  IndInv'
<1>1. file' = file /\ opts' = opts /\ file \in File /\ opts \in Options
  BY DEF Start, IndInv
<1>2. \/ conf' = NewConfig /\ pc' = "idle" /\ exit' = "err"
      \/ /\ ConfigOf(file, "Client") = Ok(conf') /\ ConfigOk(conf')
         /\ pc' = "loaded" /\ exit' = "none"
  <2>1. PICK l \in load(file, "Client") :
           \/ ~l.ok /\ conf' = NewConfig /\ Exit("err")
           \/ l.ok /\ conf' = l.val /\ pc' = "loaded" /\ exit' = "none"
    BY DEF Start
  <2>2. l = ConfigOf(file, "Client")
    BY <1>1, LoadAnyOrder
  <2>3. l = Err \/ (l = Ok(l.val) /\ ConfigOk(l.val))
    BY <2>2, AcceptedOk
  <2> QED BY <2>1, <2>2, <2>3 DEF Exit, Err
<1>3. ConfigOk(conf')
  BY <1>2, NewConfigOk
<1>4. outcome' = Untried /\ resource' = NoResource /\ cmd' = c
  BY DEF Start
<1>5. opened' = {} \/ opened' = opened
  BY DEF Start
<1>6. \A f \in Families : outcome'[f] = "untried"
  BY <1>4 DEF Untried
<1>7. TypeOK'
  BY <1>2, <1>3, <1>4, <1>5, ClientAssumption DEF Start, IndInv, TypeOK, ConfigOk, Untried
<1>8. Progress'
  BY <1>1, <1>2, <1>4 DEF Progress
<1>9. Order'
  BY <1>6 DEF Order, Families
<1>10. Ended' /\ NoClientPanic'
  BY <1>2, <1>4 DEF Ended, Ran, NoClientPanic
<1>11. Doors'
  BY <1>1, <1>5, <1>6, SameCase DEF Doors, IndInv
<1> QED BY <1>1, <1>3, <1>7, <1>8, <1>9, <1>10, <1>11 DEF IndInv

LEMMA LookupInv ==
    ASSUME IndInv, Lookup
    PROVE  IndInv'
<1>1. /\ file' = file /\ opts' = opts /\ conf' = conf /\ cmd' = cmd /\ outcome' = outcome
      /\ open' = open /\ opened' = opened /\ runs' = runs
      /\ file \in File /\ opts \in Options /\ ConfigOk(conf)
  BY DEF Lookup, IndInv
<1>2. /\ cmd \in {"Knock", "Close"} /\ resource = NoResource /\ outcome = Untried
      /\ ConfigOf(file, "Client") = Ok(conf) /\ exit = "none"
  BY DEF Lookup, IndInv, Progress
<1>3. \A f \in Families : outcome'[f] = "untried"
  BY <1>1, <1>2 DEF Untried
<1>4. Candidates = resource_id_by_port(conf, opts.port, User)
  BY <1>2 DEF Candidates, Ok, User
<1>5. \/ resource' = NoResource /\ pc' = "idle" /\ exit' = "err"
      \/ /\ resource' \in Candidates /\ resource' # NoResource
         /\ pc' = "run" /\ exit' = "none"
  BY <1>2, <1>4 DEF Lookup, Exit
<1>6. resource' \in Resources \cup {NoResource}
  BY <1>1, <1>4, <1>5 DEF resource_id_by_port, WithPort, ConfigOk
<1>7. TypeOK'
  BY <1>1, <1>5, <1>6 DEF IndInv, TypeOK
<1>8. Progress'
  BY <1>1, <1>2, <1>5, SameCase DEF Progress
<1>9. Order'
  BY <1>3 DEF Order, Families
<1>10. Ended' /\ NoClientPanic'
  BY <1>5 DEF Ended, Ran, NoClientPanic
<1>11. Doors'
  BY <1>1, <1>3, SameCase DEF Doors, IndInv
<1> QED BY <1>1, <1>7, <1>8, <1>9, <1>10, <1>11 DEF IndInv

LEMMA AttemptInv ==
    ASSUME IndInv, NEW f \in Families, Attempt(f)
    PROVE  IndInv'
<1>1. /\ file' = file /\ opts' = opts /\ conf' = conf /\ cmd' = cmd
      /\ resource' = resource /\ runs' = runs /\ pc = "run" /\ Wanted(f)
      /\ file \in File /\ opts \in Options /\ ConfigOk(conf)
  BY DEF Attempt, IndInv
<1>2. /\ resource # NoResource /\ resource \in Resources /\ resource \in Candidates
      /\ cmd \in {"Knock", "Close"}
  BY <1>1 DEF IndInv, Progress, TypeOK
<1>3. PICK r \in {"ok", "err"} :
         /\ outcome' = [outcome EXCEPT ![f] = r]
         /\ r = "ok" => Done(f)
         /\ Done(f) \/ UNCHANGED <<open, opened>>
         /\ pc' = pc /\ exit' = exit
  BY <1>1, OneProtocol DEF Attempt
<1>4. outcome \in [Families -> {"untried", "ok", "err"}] /\ outcome[f] = "untried"
  BY <1>1 DEF IndInv, TypeOK, Wanted
<1>5. outcome'[f] = r /\ \A g \in Families \ {f} : outcome'[g] = outcome[g]
  BY <1>3, <1>4
<1>6. Asked(f) /\ (AddrMode = "Both" /\ f = "Ipv4" => outcome["Ipv6"] = "ok")
  BY <1>1, WantedAsked
<1>7. TypeOK'
  BY <1>1, <1>2, <1>3, <1>4 DEF IndInv, TypeOK, Done
<1>8. Progress'
  BY <1>1, <1>2, <1>3, SameCase DEF IndInv, Progress
<1>9. Order'
  <2>1. \A g \in Families : outcome[g] # "untried" => Asked(g)
    BY DEF IndInv, Order
  <2>2. \A g \in Families : outcome'[g] # "untried" => Asked(g)'
    BY <1>1, <1>5, <1>6, <2>1, SameCase
  <2>3. AddrMode = "Both" /\ outcome["Ipv4"] # "untried" => outcome["Ipv6"] = "ok"
    BY DEF IndInv, Order
  <2>4. AddrMode' = "Both" /\ outcome'["Ipv4"] # "untried" => outcome'["Ipv6"] = "ok"
    BY <1>1, <1>4, <1>5, <1>6, <2>3, SameCase DEF Families
  <2> QED BY <2>2, <2>4 DEF Order
<1>10. Ended' /\ NoClientPanic'
  BY <1>1, <1>3 DEF IndInv, Ended, Ran, NoClientPanic
<1>11. Doors'
  <2>1. ASSUME NEW p \in opened'
        PROVE  Asked(p[1])' /\ p[2] \in Candidates'
    <3>1. p \in opened \/ p = <<f, resource>>
      BY <1>3 DEF Done
    <3>2. p \in opened => Asked(p[1]) /\ p[2] \in Candidates
      BY DEF IndInv, Doors
    <3> QED BY <1>1, <1>2, <1>6, <3>1, <3>2, SameCase
  <2>2. ASSUME cmd' = "Close", NEW g \in Families, outcome'[g] = "ok"
        PROVE  <<g, resource'>> \notin open'
    <3>1. open' \subseteq open /\ (r = "ok" => <<f, resource>> \notin open')
      BY <1>1, <1>3, <2>2 DEF Done
    <3>2. outcome[g] = "ok" => <<g, resource>> \notin open
      BY <1>1, <2>2 DEF IndInv, Doors
    <3> QED BY <1>1, <1>5, <2>2, <3>1, <3>2
  <2>3. ASSUME cmd' = "Knock", NEW g \in Families, outcome'[g] = "ok"
        PROVE  <<g, resource'>> \in open'
    <3>1. open \subseteq open' /\ (r = "ok" => <<f, resource>> \in open')
      BY <1>1, <1>3, <2>3 DEF Done
    <3>2. outcome[g] = "ok" => <<g, resource>> \in open
      BY <1>1, <2>3 DEF IndInv, Doors
    <3> QED BY <1>1, <1>5, <2>3, <3>1, <3>2
  <2> QED BY <2>1, <2>2, <2>3 DEF Doors
<1> QED BY <1>1, <1>7, <1>8, <1>9, <1>10, <1>11 DEF IndInv

LEMMA FinishInv ==
    ASSUME IndInv, Finish
    PROVE  IndInv'
<1>1. /\ file' = file /\ opts' = opts /\ conf' = conf /\ cmd' = cmd /\ resource' = resource
      /\ outcome' = outcome /\ open' = open /\ opened' = opened /\ runs' = runs
      /\ pc' = "idle" /\ exit' = Result /\ pc = "run"
      /\ \A f \in Families : ~Wanted(f)
  BY DEF Finish, Exit
<1>2. Result \in {"ok", "err"}
  BY DEF Result
<1>3. TypeOK'
  BY <1>1, <1>2 DEF IndInv, TypeOK
<1>4. Progress'
  BY <1>1, SameCase DEF IndInv, Progress
<1>5. Order' /\ Doors'
  BY <1>1, SameCase DEF IndInv, Order, Doors
<1>6. AddrMode' = AddrMode
  BY <1>1, SameCase
<1>7. Result' = Result
  BY <1>1, <1>6 DEF Result, AllFailed, OneFailed
<1>8. \A f \in Families : Wanted(f)' <=> Wanted(f)
  BY <1>1, <1>6 DEF Wanted, knock_wants, close_wants
<1>9. Ended' /\ NoClientPanic'
  BY <1>1, <1>2, <1>7, <1>8 DEF Ended, NoClientPanic
<1> QED BY <1>1, <1>3, <1>4, <1>5, <1>9 DEF IndInv

LEMMA StutterInv ==
    ASSUME IndInv, UNCHANGED vars
    PROVE  IndInv'
<1> USE DEF vars
<1>1. TypeOK' /\ Progress' /\ Order' /\ Doors' /\ NoClientPanic'
  BY SameCase DEF IndInv, TypeOK, Progress, Order, Doors, NoClientPanic
<1>2. AddrMode' = AddrMode
  BY SameCase
<1>3. Result' = Result
  BY <1>2 DEF Result, AllFailed, OneFailed
<1>4. \A f \in Families : Wanted(f)' <=> Wanted(f)
  BY <1>2 DEF Wanted, knock_wants, close_wants
<1>5. Ended'
  BY <1>3, <1>4 DEF IndInv, Ended, Ran
<1> QED BY <1>1, <1>5 DEF IndInv

\* The inductive invariant holds in every state of every run of commands.
THEOREM Invariance == Spec => []IndInv
<1>1. ASSUME IndInv, [Next]_vars PROVE IndInv'
  <2>1. ASSUME NEW c \in {"Knock", "Close"}, Start(c) PROVE IndInv'
    BY <1>1, <2>1, StartInv
  <2>2. CASE Lookup
    BY <1>1, <2>2, LookupInv
  <2>3. ASSUME NEW f \in Families, Attempt(f) PROVE IndInv'
    BY <1>1, <2>3, AttemptInv
  <2>4. CASE Finish
    BY <1>1, <2>4, FinishInv
  <2>5. CASE UNCHANGED vars
    BY <1>1, <2>5, StutterInv
  <2> QED BY <1>1, <2>1, <2>2, <2>3, <2>4, <2>5 DEF Next
<1> QED BY InitInv, <1>1, PTL DEF Spec

-----------------------------------------------------------------------------
(* The theorems *)

\* Types: a configuration that was loaded has a protocol for the control port
\* and only identifiers in its maps, whatever the file contains.
THEOREM TypeCorrect == Spec => []TypeOK
<1>1. IndInv => TypeOK
  BY DEF IndInv
<1> QED BY <1>1, Invariance, PTL

\* The meaning of a file does not depend on the order of the hash maps.
THEOREM AnyOrder == Spec => []OrderIndependent
<1>1. IndInv => OrderIndependent
  BY LoadAnyOrder DEF IndInv, OrderIndependent
<1> QED BY <1>1, Invariance, PTL

\* The resource that the client asks for is the only one with that port.
THEOREM Unambiguous == Spec => []PortUnambiguous
<1>1. IndInv => PortUnambiguous
  BY DEF IndInv, ConfigOk, PortUnambiguous
<1> QED BY <1>1, Invariance, PTL

\* The assertions of Client::new hold for every file and all options.
THEOREM ClientPanicFree == Spec => []NoClientPanic
<1>1. IndInv => NoClientPanic
  BY DEF IndInv
<1> QED BY <1>1, Invariance, PTL

\* The exit status is what the help of --ipv4 and --ipv6 says.
THEOREM DocumentedExit == Spec => []ExitAsDocumented
<1>1. ASSUME IndInv, Ran PROVE ExitAsDocumented
  <2>1. /\ opts \in Options /\ exit = Result /\ \A f \in Families : ~Wanted(f)
        /\ outcome \in [Families -> {"untried", "ok", "err"}]
        /\ \A f \in Families : outcome[f] # "untried" => Asked(f)
    BY <1>1 DEF IndInv, Ended, Order, TypeOK
  <2>2. CASE AddrMode = "TryBoth" /\ opts.host = "name"
    BY <2>1, <2>2 DEF ExitAsDocumented, Result
  <2>3. CASE AddrMode = "TryBoth" /\ opts.host # "name"
    <3>1. PICK f \in Families : opts.host = f
      BY <2>1, <2>3 DEF Options
    <3>2. outcome[f] # "untried" /\ \A g \in Families : g # f => outcome[g] = "untried"
      BY <2>1, <2>3, <3>1 DEF Wanted, knock_wants, close_wants, Asked
    <3>3. AllFailed <=> OneFailed
      BY <2>1, <3>2 DEF AllFailed, OneFailed
    <3> QED BY <2>1, <2>3, <3>3 DEF ExitAsDocumented, Result
  <2>4. CASE AddrMode = "Both"
    <3>1. outcome["Ipv6"] # "untried"
      BY <2>1, <2>4 DEF Wanted, knock_wants, close_wants, Families
    <3>2. outcome["Ipv6"] = "ok" => outcome["Ipv4"] # "untried"
      BY <2>1, <2>4 DEF Wanted, knock_wants, close_wants, Families
    <3>3. OneFailed <=> \E f \in Families : outcome[f] # "ok"
      BY <2>1, <3>1, <3>2 DEF OneFailed, Families
    <3> QED BY <2>1, <2>4, <3>3 DEF ExitAsDocumented, Result
  <2>5. CASE AddrMode \in Families
    <3>1. /\ outcome[AddrMode] # "untried"
          /\ \A g \in Families : g # AddrMode => outcome[g] = "untried"
      BY <2>1, <2>5 DEF Wanted, knock_wants, close_wants, Asked, Families
    <3>2. OneFailed <=> outcome[AddrMode] # "ok"
      BY <2>1, <2>5, <3>1 DEF OneFailed
    <3> QED BY <2>1, <2>5, <3>2 DEF ExitAsDocumented, Result, Families
  <2> QED BY <2>1, <2>2, <2>3, <2>4, <2>5, Mode DEF Families
<1>2. IndInv => ExitAsDocumented
  BY <1>1 DEF ExitAsDocumented
<1> QED BY <1>2, Invariance, PTL

\* A knock that reports success has opened the port over the families that the options
\* ask for, except over one that failed for a host name without --ipv4 or --ipv6.
THEOREM KnockedOpen == Spec => []KnockOpens
<1>1. ASSUME IndInv, Ran, cmd = "Knock", exit = "ok" PROVE KnockOpens
  <2>1. /\ opts \in Options /\ \A f \in Families : ~Wanted(f)
        /\ outcome \in [Families -> {"untried", "ok", "err"}]
        /\ \A f \in Families : outcome[f] = "ok" => <<f, resource>> \in open
        /\ Result = "ok"
    BY <1>1 DEF IndInv, Ended, Doors, TypeOK
  <2>2. CASE AddrMode = "TryBoth" /\ opts.host = "name"
    <3>1. \A f \in Families : outcome[f] # "untried"
      BY <1>1, <2>1, <2>2 DEF Wanted, knock_wants, Families
    <3>2. \E f \in Families : outcome[f] = "ok"
      BY <2>1, <2>2 DEF Result, AllFailed
    <3> QED BY <2>1, <2>2, <3>1, <3>2 DEF KnockOpens
  <2>3. CASE ~(AddrMode = "TryBoth" /\ opts.host = "name")
    <3>1. \A f \in Families : outcome[f] # "err"
      BY <2>1, <2>3 DEF Result, OneFailed
    <3>2. CASE AddrMode = "TryBoth"
      <4>1. outcome[opts.host] = "ok" /\ opts.host \in Families
        BY <1>1, <2>1, <2>3, <3>1, <3>2 DEF Options, Wanted, knock_wants
      <4> QED BY <2>1, <3>2, <4>1 DEF KnockOpens
    <3>3. CASE AddrMode = "Both"
      <4>1. outcome["Ipv6"] = "ok" /\ outcome["Ipv4"] = "ok"
        BY <1>1, <2>1, <3>1, <3>3 DEF Wanted, knock_wants, Families
      <4> QED BY <2>1, <4>1 DEF KnockOpens, Families
    <3>4. CASE AddrMode \in Families
      <4>1. outcome[AddrMode] = "ok"
        BY <1>1, <2>1, <3>1, <3>4 DEF Wanted, knock_wants, Families
      <4> QED BY <2>1, <3>4, <4>1 DEF KnockOpens
    <3> QED BY <2>1, <3>2, <3>3, <3>4, Mode DEF Families
  <2> QED BY <2>2, <2>3
<1>2. IndInv => KnockOpens
  BY <1>1 DEF KnockOpens
<1> QED BY <1>2, Invariance, PTL

\* A close that reports success has undone the last knock; for a host name without
\* --ipv4 or --ipv6, over the families that it has closed.
THEOREM CloseUndoes == Spec => []CloseUndoesKnock
<1>1. ASSUME IndInv, Ran, cmd = "Close", exit = "ok", NEW p \in open \cap opened
      PROVE  AddrMode = "TryBoth" /\ opts.host = "name" /\ outcome[p[1]] # "ok"
  <2>1. /\ opts \in Options /\ \A f \in Families : ~Wanted(f)
        /\ outcome \in [Families -> {"untried", "ok", "err"}]
        /\ p \in Families \X Resources
        /\ Asked(p[1]) /\ p[2] \in Candidates /\ resource \in Candidates
    BY <1>1 DEF IndInv, Ended, Doors, Progress, TypeOK, Ran
  <2>2. p = <<p[1], resource>> /\ p[1] \in Families
    BY <2>1, OneCandidate
  <2>3. outcome[p[1]] # "ok"
    BY <1>1, <2>2 DEF IndInv, Doors
  <2>4. ASSUME ~(AddrMode = "TryBoth" /\ opts.host = "name") PROVE FALSE
    <3>1. \A f \in Families : outcome[f] # "err"
      BY <1>1, <2>4 DEF IndInv, Ended, Result, OneFailed
    <3>2. AddrMode = "Both" => outcome["Ipv6"] = "ok"
      BY <2>1, <3>1 DEF Wanted, knock_wants, close_wants, Families
    <3>3. outcome[p[1]] # "untried"
      BY <1>1, <2>1, <2>2, <2>4, <3>2, Mode DEF Wanted, close_wants, Asked, Families
    <3> QED BY <2>1, <2>2, <2>3, <3>1, <3>3
  <2> QED BY <2>3, <2>4
<1>2. IndInv => CloseUndoesKnock
  BY <1>1 DEF CloseUndoesKnock
<1> QED BY <1>2, Invariance, PTL
=============================================================================
