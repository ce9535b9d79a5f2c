---------------------------- MODULE MachineProofs ----------------------------
(***************************************************************************)
(* What holds of the things of one machine: of the list of workspaces, of  *)
(* the server and of the menu bar application, for any number of requests, *)
(* commands, folders, calls and starts of the server; and of the binary of *)
(* dit, for any number of upgrades.                                        *)
(***************************************************************************)
EXTENDS Tray, Upgrade, TLAPS

(* What a caller is doing: nothing, a change of the list, a removal's last *)
(* step, a request for a workspace.                                        *)
Changes == [at : {"make", "save"}, op : {"create", "add", "remove", "default"},
            name : Names, next : Tables, alone : BOOLEAN]
Looks   == [at : {"close", "lookup"}, name : Names]
Opens   == [at : {"opening", "insert"}, name : Names, path : Folders]
Calls   == {Idle, [at |-> "serving"]} \union Changes \union Looks \union Opens

(* What every variable holds.                                              *)
TypeOK ==
    /\ list \in Tables
    /\ folder \in [Folders -> {"absent", "empty", "plain", "workspace"}]
    /\ call \in [Callers -> Calls]
    /\ hub \in {"down", "starting", "up", "stopping"}
    /\ open \in [Names -> Folders \union {None}]
    /\ calls \in 0..MaxCalls /\ adrift \subseteq Names
    /\ app \in {"down", "up", "stops", "quits"} /\ git \in BOOLEAN
    /\ handle \in {"none", "server", "failed"} /\ impatient \in BOOLEAN
    /\ parent \in {"none", "app", "known", "other", "gone", "lost"}
    /\ starts \in 0..MaxStarts

-----------------------------------------------------------------------------
(* The changes of a list.                                                  *)

(* A new name leaves a sound list sound, and the other names alone         *)
(* (Registry::add).                                                        *)
LEMMA WithIsSound ==
    ASSUME NEW l \in Tables, SoundList(l), NEW n \in Names, NEW f \in Folders, n \notin Listed(l)
    PROVE  /\ With(l, n, f) \in Tables /\ SoundList(With(l, n, f))
           /\ Moved(l, With(l, n, f)) \subseteq {n}
<1> DEFINE e == [name |-> n, path |-> f]
           k == With(l, n, f)
<1>1. k \in Tables /\ k.entries = l.entries \union {e} /\ k.default = l.default
  BY DEF With, Tables, Entries
<1>2. e.name = n /\ e.path = f
  OBVIOUS
<1> HIDE DEF e, k
<1>3. SoundList(k)
  BY <1>1, <1>2 DEF SoundList, Listed
<1>4. \A m \in Names \ {n} : PathsOf(k, m) = PathsOf(l, m)
  BY <1>1, <1>2 DEF PathsOf
<1>5. Moved(l, k) \subseteq {n}
  BY <1>4 DEF Moved
<1> QED BY <1>1, <1>3, <1>5 DEF k

(* A removed name leaves a sound list sound, and the other names alone     *)
(* (Registry::remove).                                                     *)
LEMMA WithoutIsSound ==
    ASSUME NEW l \in Tables, SoundList(l), NEW n \in Names
    PROVE  /\ Without(l, n) \in Tables /\ SoundList(Without(l, n))
           /\ Moved(l, Without(l, n)) \subseteq {n}
<1> DEFINE k == Without(l, n)
<1>1. /\ k.entries = {e \in l.entries : e.name # n}
      /\ k.default = IF l.default = n THEN None ELSE l.default
  BY DEF Without
<1>2. k \in Tables
  BY DEF Without, Tables, Entries
<1> HIDE DEF k
<1>3. SoundList(k)
  BY <1>1 DEF SoundList, Listed
<1>4. \A m \in Names \ {n} : PathsOf(k, m) = PathsOf(l, m)
  BY <1>1 DEF PathsOf
<1>5. Moved(l, k) \subseteq {n}
  BY <1>4 DEF Moved
<1> QED BY <1>2, <1>3, <1>5 DEF k

(* A new default that is listed leaves a sound list sound                  *)
(* (Registry::set_default).                                                *)
LEMMA DefaultIsSound ==
    ASSUME NEW l \in Tables, SoundList(l), NEW n \in Listed(l)
    PROVE  /\ n \in Names
           /\ [l EXCEPT !.default = n] \in Tables /\ SoundList([l EXCEPT !.default = n])
           /\ Moved(l, [l EXCEPT !.default = n]) \subseteq {n}
<1> DEFINE k == [l EXCEPT !.default = n]
<1>1. n \in Names
  BY DEF Listed, Tables, Entries
<1>2. k \in Tables /\ k.entries = l.entries /\ k.default = n
  BY <1>1 DEF Tables
<1> HIDE DEF k
<1>3. SoundList(k)
  BY <1>2 DEF SoundList, Listed
<1>4. Moved(l, k) \subseteq {n}
  BY <1>2 DEF Moved, PathsOf
<1> QED BY <1>1, <1>2, <1>3, <1>4 DEF k

-----------------------------------------------------------------------------
(* Why the list stays sound and the server serves what it lists: a list    *)
(* that is about to be saved is sound and, if nobody saved meanwhile,      *)
(* differs from the list of now in one name; what a request is about to    *)
(* put under a name is listed under it, or the name is adrift; a server    *)
(* that is not up has no requests.                                         *)
PlansAreSound ==
    \A c \in Callers : call[c].at \in {"make", "save"} =>
        /\ SoundList(call[c].next)
        /\ call[c].alone => Moved(list, call[c].next) \subseteq {call[c].name}

OpensListed ==
    \A t \in Threads : call[t].at \in {"opening", "insert"} =>
        call[t].name \in adrift \/ call[t].path \in PathsOf(list, call[t].name)

NoServerNoRequests == hub \in {"down", "starting"} => \A t \in Threads : call[t] = Idle

ListInv == ListIsSound /\ PlansAreSound /\ OpensListed /\ ServedIsListed /\ NoServerNoRequests
TrayInv == TypeOK /\ ListInv

(* The invariant holds at first.                                           *)
LEMMA InitInv == TrayInit => TrayInv
<1> SUFFICES ASSUME TrayInit PROVE TrayInv
  OBVIOUS
<1>1. list \in Tables /\ ListIsSound /\ folder \in [Folders -> {"absent", "empty", "plain", "workspace"}]
  BY WorkspacesAssumption DEF TrayInit, Init, ListIsSound
<1>2. call \in [Callers -> Calls] /\ \A c \in Callers : call[c] = Idle /\ Idle.at = "idle"
  BY DEF TrayInit, Init, Calls, Idle
<1>3. open \in [Names -> Folders \union {None}] /\ \A n \in Names : open[n] = None
  BY DEF TrayInit, Init
<1>4. TypeOK
  <2>1. calls \in 0..MaxCalls /\ adrift \subseteq Names /\ starts \in 0..MaxStarts
    BY WorkspacesAssumption, TrayAssumption DEF TrayInit, Init
  <2>2. app = "down" /\ git = FALSE /\ handle = "none" /\ impatient = FALSE /\ parent = "none" /\ hub = "down"
    BY DEF TrayInit, Init
  <2> QED BY <1>1, <1>2, <1>3, <2>1, <2>2 DEF TypeOK
<1>5. PlansAreSound /\ OpensListed
  BY <1>2 DEF PlansAreSound, OpensListed, Callers
<1>6. ServedIsListed
  BY <1>3 DEF ServedIsListed
<1>7. NoServerNoRequests
  BY <1>2 DEF NoServerNoRequests, Callers
<1> QED BY <1>1, <1>4, <1>5, <1>6, <1>7 DEF TrayInv, ListInv

(* The end of the server, however it comes.                                *)
LEMMA GoneInv ==
    ASSUME TrayInv, Gone
    PROVE  /\ ListInv' /\ hub' = "down" /\ parent' = "none"
           /\ list' \in Tables /\ folder' = folder /\ calls' = calls /\ adrift' = {}
           /\ call' \in [Callers -> Calls] /\ open' \in [Names -> Folders \union {None}]
<1>1. \A c \in Callers : call'[c] = IF c \in Threads THEN Idle ELSE call[c]
  BY DEF Gone
<1>2. call' \in [Callers -> Calls]
  BY DEF Gone, TrayInv, TypeOK, Calls
<1>3. open' \in [Names -> Folders \union {None}] /\ \A n \in Names : open'[n] = None
  BY DEF Gone
<1>4. Idle.at = "idle" /\ list' = list /\ list \in Tables
  BY DEF Idle, Gone, TrayInv, TypeOK
<1>5. ListIsSound' /\ PlansAreSound'
  BY <1>1, <1>4 DEF TrayInv, ListInv, ListIsSound, PlansAreSound
<1>6. OpensListed' /\ ServedIsListed' /\ NoServerNoRequests'
  BY <1>1, <1>3, <1>4 DEF OpensListed, ServedIsListed, NoServerNoRequests, Callers
<1> QED BY <1>2, <1>3, <1>4, <1>5, <1>6 DEF Gone, ListInv

(* What the application and the server do beside requests.                 *)
LEMMA AppInv == ASSUME TrayInv, ServerStep \/ AppStep PROVE TrayInv'
<1> USE TrayAssumption DEF TrayInv, TypeOK
<1>1. ASSUME UNCHANGED world, hub' \in {"down", "starting"} => hub \in {"down", "starting"}
      PROVE  ListInv'
  BY <1>1 DEF world, ListInv, ListIsSound, PlansAreSound, OpensListed, ServedIsListed, NoServerNoRequests
<1>2. ASSUME Spawn, app' \in {"down", "up", "stops", "quits"}, git' \in BOOLEAN PROVE TrayInv'
  <2>1. ListInv'
    BY <1>1, <1>2 DEF Spawn
  <2> QED BY <1>2, <2>1 DEF Spawn, world
<1>3. CASE Bind
  BY <1>1, <1>3 DEF Bind, world
<1>4. CASE ParentGone
  BY <1>1, <1>4 DEF ParentGone, world, tray
<1>5. CASE Exit
  BY <1>5, GoneInv DEF Exit
<1>6. CASE Launch
  BY <1>1, <1>2, <1>6 DEF Launch, world
<1>7. CASE GitCame \/ Start
  BY <1>2, <1>7 DEF GitCame, Start
<1>8. CASE Tick \/ QuitAlone \/ Stopped \/ Patience
  BY <1>1, <1>8 DEF Tick, QuitAlone, Stopped, Patience, world, Waits
<1>9. ASSUME NEW at \in {"stops", "quits"}, Stop(at) PROVE TrayInv'
  <2>1. CASE hub = "up"
    BY <1>1, <1>9, <2>1 DEF Stop, world
  <2>2. CASE hub = "starting"
    BY <1>9, <2>2, GoneInv DEF Stop
  <2>3. CASE hub \notin {"up", "starting"}
    BY <1>1, <1>9, <2>3 DEF Stop, world
  <2> QED BY <2>1, <2>2, <2>3
<1>10. CASE MenuStop \/ Quit
  BY <1>9, <1>10 DEF MenuStop, Quit
<1>11. CASE Kill
  BY <1>11, GoneInv DEF Kill
<1>12. CASE Killed
  BY <1>1, <1>12 DEF Killed, world
<1> QED
  BY <1>3, <1>4, <1>5, <1>6, <1>7, <1>8, <1>10, <1>11, <1>12 DEF ServerStep, AppStep

-----------------------------------------------------------------------------
(* What requests and commands do.                                          *)
LEMMA MachineInv == ASSUME TrayInv, Machine, UNCHANGED tray PROVE TrayInv'
<1> USE DEF TrayInv, TypeOK, tray
<1>0. /\ \A v \in Changes : v \in Calls /\ v.at \in {"make", "save"} /\ v.name \in Names /\ v.next \in Tables
      /\ \A v \in Looks : v \in Calls /\ v.at \in {"close", "lookup"} /\ v.name \in Names
      /\ \A v \in Opens : v \in Calls /\ v.at \in {"opening", "insert"} /\ v.name \in Names /\ v.path \in Folders
      /\ Idle \in Calls /\ Idle.at = "idle"
      /\ [at |-> "serving"] \in Calls
      /\ \A v \in Calls : /\ v.at \in {"make", "save"} => v \in Changes
                          /\ v.at \in {"close", "lookup"} => v \in Looks
                          /\ v.at \in {"opening", "insert"} => v \in Opens
  BY DEF Calls, Changes, Looks, Opens, Idle
<1>1. \A c \in Callers : call[c] \in Calls
  OBVIOUS
<1>2. Threads \subseteq Callers
  BY DEF Callers
(* one caller's own step *)
<1>3. ASSUME NEW c \in Callers, NEW v \in Calls, call' = [call EXCEPT ![c] = v],
             UNCHANGED <<list, open, hub, adrift>>,
             v.at \in {"make", "save"} =>
                SoundList(v.next) /\ (v.alone => Moved(list, v.next) \subseteq {v.name}),
             c \in Threads /\ v.at \in {"opening", "insert"} =>
                v.name \in adrift \/ v.path \in PathsOf(list, v.name),
             call[c].at # "close",
             c \in Threads /\ hub \in {"down", "starting"} => v = Idle
      PROVE  call' \in [Callers -> Calls] /\ ListInv'
  <2>1. call'[c] = v /\ \A d \in Callers \ {c} : call'[d] = call[d]
    BY <1>3
  <2>2. call' \in [Callers -> Calls]
    BY <1>3
  <2>3. PlansAreSound'
    BY <1>3, <2>1 DEF ListInv, PlansAreSound
  <2>4. OpensListed'
    BY <1>2, <1>3, <2>1 DEF ListInv, OpensListed
  <2>5. ServedIsListed'
    <3>1. \A t \in Threads : call[t].at = "close" => call'[t] = call[t]
      BY <1>2, <1>3, <2>1
    <3> QED BY <1>3, <3>1 DEF ListInv, ServedIsListed
  <2>6. NoServerNoRequests'
    BY <1>2, <1>3, <2>1 DEF ListInv, NoServerNoRequests
  <2> QED BY <1>3, <2>2, <2>3, <2>4, <2>5, <2>6 DEF ListInv, ListIsSound
(* a change is decided *)
<1>4. ASSUME NEW c \in Callers, NEW op \in {"create", "add", "remove", "default"},
             NEW n \in Names, NEW l \in Tables, WillSave(c, op, n, l),
             SoundList(l), Moved(list, l) \subseteq {n}
      PROVE  TrayInv'
  <2> DEFINE v == [at |-> IF op = "create" THEN "make" ELSE "save",
                   op |-> op, name |-> n, next |-> l, alone |-> TRUE]
  <2>1. v \in Changes /\ v.next = l /\ v.name = n /\ v.at \in {"make", "save"}
    BY DEF Changes
  <2>2. /\ call' = [call EXCEPT ![c] = v] /\ call[c] = Idle /\ (c \in Threads => hub = "up")
        /\ calls < MaxCalls /\ calls' = calls + 1 /\ UNCHANGED <<list, folder, hub, open, adrift>>
    BY <1>4 DEF WillSave, CanAsk
  <2> HIDE DEF v
  <2>3. call' \in [Callers -> Calls] /\ ListInv'
    BY <1>0, <1>3, <1>4, <2>1, <2>2
  <2>4. calls' \in 0..MaxCalls
    BY <2>2, WorkspacesAssumption
  <2> QED BY <2>2, <2>3, <2>4
<1>5. ASSUME NEW c \in Callers, Create(c) PROVE TrayInv'
  <2>1. PICK f \in Folders : <<f, 1>> \notin Listed(list) /\ WillSave(c, "create", <<f, 1>>, With(list, <<f, 1>>, f))
    BY <1>5 DEF Create
  <2>2. <<f, 1>> \in Names
    BY DEF Names, Numbers
  <2> QED BY <1>4, <2>1, <2>2, WithIsSound DEF ListInv, ListIsSound
<1>6. ASSUME NEW c \in Callers, Add(c) PROVE TrayInv'
  <2>1. PICK f \in Folders, n \in Names : IsFreeName(list, n) /\ WillSave(c, "add", n, With(list, n, f))
    BY <1>6 DEF Add
  <2>2. n \notin Listed(list)
    BY <2>1 DEF IsFreeName
  <2> QED BY <1>4, <2>1, <2>2, WithIsSound DEF ListInv, ListIsSound
<1>7. ASSUME NEW c \in Callers, Remove(c) \/ SetDefault(c) PROVE TrayInv'
  <2>1. PICK n \in Listed(list) : \/ WillSave(c, "remove", n, Without(list, n))
                                  \/ WillSave(c, "default", n, [list EXCEPT !.default = n])
    BY <1>7 DEF Remove, SetDefault
  <2>2. n \in Names
    BY DefaultIsSound DEF ListInv, ListIsSound
  <2> QED BY <1>4, <2>1, <2>2, WithoutIsSound, DefaultIsSound DEF ListInv, ListIsSound
(* it is made and given up *)
<1>8. ASSUME NEW c \in Callers, Make(c) PROVE TrayInv'
  <2>1. call[c] \in Changes /\ call[c].at = "make"
    BY <1>0, <1>1, <1>8 DEF Make
  <2> DEFINE v == [call[c] EXCEPT !.at = "save"]
  <2>2. v \in Changes /\ v.at = "save" /\ v.next = call[c].next /\ v.name = call[c].name /\ v.alone = call[c].alone
    BY <2>1 DEF Changes
  <2>3. call' = [call EXCEPT ![c] = v] /\ UNCHANGED <<list, hub, open, calls, adrift>>
    BY <1>8 DEF Make
  <2> HIDE DEF v
  <2>4. call[c] # Idle
    BY <1>0, <2>1
  <2>5. call' \in [Callers -> Calls] /\ ListInv'
    BY <1>0, <1>3, <2>1, <2>2, <2>3, <2>4 DEF ListInv, PlansAreSound, NoServerNoRequests
  <2>6. folder' \in [Folders -> {"absent", "empty", "plain", "workspace"}]
    BY <1>8 DEF Make
  <2> QED BY <2>3, <2>5, <2>6
<1>9. ASSUME NEW c \in Callers, Fail(c) PROVE TrayInv'
  <2>1. call' \in [Callers -> Calls] /\ ListInv'
    BY <1>0, <1>3, <1>9 DEF Fail
  <2> QED BY <1>9, <2>1 DEF Fail
(* it is saved *)
<1>10. ASSUME NEW c \in Callers, Save(c) PROVE TrayInv'
  <2> DEFINE l == call[c].next
             n == call[c].name
  <2>1. call[c] \in Changes /\ call[c].at = "save" /\ l \in Tables /\ n \in Names /\ SoundList(l)
    BY <1>0, <1>1, <1>10 DEF Save, ListInv, PlansAreSound
  <2>2. list' = l /\ adrift' = adrift \union Drifting(c) /\ UNCHANGED <<folder, hub, open, calls>>
    BY <1>10 DEF Save
  <2>13. call' = [d \in Callers |->
              CASE d = c -> IF Removes(c) THEN [at |-> "close", name |-> n] ELSE Idle
                [] d # c /\ call[d].at \in {"make", "save"} -> [call[d] EXCEPT !.alone = FALSE]
                [] OTHER -> call[d]]
    BY <1>10 DEF Save
  <2>14. \A d \in Callers : d # c =>
            call'[d] = IF call[d].at \in {"make", "save"} THEN [call[d] EXCEPT !.alone = FALSE] ELSE call[d]
    BY <2>13
  <2>15. \A m \in Moved(list, l) :
            Opening(m) \/ (open[m] # None /\ ~(Removes(c) /\ m = n)) => m \in adrift'
    BY <2>2 DEF Drifting
  <2> HIDE DEF l
  <2>3. call'[c] = IF Removes(c) THEN [at |-> "close", name |-> n] ELSE Idle
    BY <2>13
  <2>4. call'[c] \in Calls /\ call'[c].at \in {"close", "idle"} /\ (Removes(c) => call'[c].at = "close" /\ call'[c].name = n)
    <3>1. [at |-> "close", name |-> n] \in Looks
      BY <2>1 DEF Looks
    <3> QED BY <1>0, <2>3, <3>1
  <2>5. ASSUME NEW d \in Callers \ {c}
        PROVE  /\ call'[d] \in Calls /\ call'[d].at = call[d].at
               /\ call[d].at \in {"make", "save"} => call'[d].alone = FALSE /\ call'[d].next = call[d].next
               /\ call[d].at \notin {"make", "save"} => call'[d] = call[d]
    <3>1. CASE call[d].at \in {"make", "save"}
      <4>1. call[d] \in Changes /\ call'[d] = [call[d] EXCEPT !.alone = FALSE]
        BY <1>0, <1>1, <2>14, <3>1
      <4>2. call'[d] \in Changes /\ call'[d].at = call[d].at /\ call'[d].alone = FALSE /\ call'[d].next = call[d].next
        BY <4>1 DEF Changes
      <4> QED BY <1>0, <3>1, <4>2
    <3>2. CASE call[d].at \notin {"make", "save"}
      BY <1>1, <2>14, <3>2
    <3> QED BY <3>1, <3>2
  <2>6. call' \in [Callers -> Calls]
    BY <2>4, <2>5, <2>13
  <2>7. adrift' \subseteq Names /\ adrift \subseteq adrift'
    BY <2>2 DEF Drifting, Moved
  <2>8. ListIsSound'
    BY <2>1, <2>2 DEF ListIsSound
  <2>9. PlansAreSound'
    BY <2>4, <2>5 DEF ListInv, PlansAreSound
  <2>10. OpensListed'
    <3> SUFFICES ASSUME NEW t \in Threads, call'[t].at \in {"opening", "insert"}
                 PROVE  call'[t].name \in adrift' \/ call'[t].path \in PathsOf(list', call'[t].name)
      BY DEF OpensListed
    <3>1. t # c /\ call'[t] = call[t]
      BY <1>2, <2>4, <2>5
    <3>2. call[t].name \in Names /\ Opening(call[t].name)
      BY <1>0, <1>1, <1>2, <3>1 DEF Opening
    <3>3. call[t].name \in adrift \/ call[t].path \in PathsOf(list, call[t].name)
      BY <3>1 DEF ListInv, OpensListed
    <3>4. call[t].name \in Moved(list, l) => call[t].name \in adrift'
      BY <2>15, <3>2
    <3>5. call[t].name \notin Moved(list, l) => PathsOf(list', call[t].name) = PathsOf(list, call[t].name)
      BY <2>2, <3>2 DEF Moved
    <3> QED BY <2>7, <3>1, <3>3, <3>4, <3>5
  <2>11. ServedIsListed'
    <3> SUFFICES ASSUME NEW m \in Names, open[m] # None, m \notin adrift'
                 PROVE  \/ open[m] \in PathsOf(list', m)
                        \/ \E t \in Threads : call'[t].at = "close" /\ call'[t].name = m
      BY <2>2 DEF ServedIsListed
    <3>1. CASE Removes(c) /\ m = n
      BY <2>4, <3>1 DEF Removes
    <3>2. CASE ~(Removes(c) /\ m = n)
      <4>1. m \notin Moved(list, l)
        BY <2>15, <3>2
      <4>2. PathsOf(list', m) = PathsOf(list, m)
        BY <2>2, <4>1 DEF Moved
      <4>3. \A t \in Threads : call[t].at = "close" => call'[t] = call[t]
        BY <1>2, <2>1, <2>5
      <4>4. open[m] \in PathsOf(list, m) \/ \E t \in Threads : call[t].at = "close" /\ call[t].name = m
        BY <2>7 DEF ListInv, ServedIsListed
      <4> QED BY <4>2, <4>3, <4>4
    <3> QED BY <3>1, <3>2
  <2>12. NoServerNoRequests'
    <3> SUFFICES ASSUME hub \in {"down", "starting"}, NEW t \in Threads PROVE call'[t] = Idle
      BY <2>2 DEF NoServerNoRequests
    <3>1. call[t] = Idle
      BY DEF ListInv, NoServerNoRequests
    <3>2. t # c
      BY <1>0, <2>1, <3>1
    <3> QED BY <1>0, <1>2, <2>5, <3>1, <3>2
  <2> QED BY <2>1, <2>2, <2>6, <2>7, <2>8, <2>9, <2>10, <2>11, <2>12 DEF ListInv
(* the router is forgotten *)
<1>11. ASSUME NEW t \in Threads, Close(t) PROVE TrayInv'
  <2>1. call[t] \in Looks /\ call[t].at = "close" /\ call[t].name \in Names
    BY <1>0, <1>1, <1>2, <1>11 DEF Close
  <2>2. call' = [call EXCEPT ![t] = Idle] /\ open' = [open EXCEPT ![call[t].name] = None]
        /\ UNCHANGED <<list, folder, hub, calls, adrift>>
    BY <1>11 DEF Close
  <2>3. call'[t] = Idle /\ \A d \in Callers \ {t} : call'[d] = call[d]
    BY <1>2, <2>2
  <2>4. call' \in [Callers -> Calls]
    BY <1>0, <2>2
  <2>5. open' \in [Names -> Folders \union {None}]
    BY <2>1, <2>2
  <2>6. PlansAreSound' /\ OpensListed'
    BY <1>0, <1>2, <2>2, <2>3 DEF ListInv, PlansAreSound, OpensListed
  <2>7. ServedIsListed'
    <3> SUFFICES ASSUME NEW m \in Names, open'[m] # None, m \notin adrift
                 PROVE  \/ open'[m] \in PathsOf(list, m)
                        \/ \E u \in Threads : call'[u].at = "close" /\ call'[u].name = m
      BY <2>2 DEF ServedIsListed
    <3>1. m # call[t].name /\ open'[m] = open[m]
      BY <2>1, <2>2
    <3>2. open[m] \in PathsOf(list, m) \/ \E u \in Threads : call[u].at = "close" /\ call[u].name = m
      BY <3>1 DEF ListInv, ServedIsListed
    <3> QED BY <1>2, <2>3, <3>1, <3>2
  <2>8. NoServerNoRequests'
    BY <1>2, <2>2, <2>3 DEF ListInv, NoServerNoRequests
  <2> QED BY <2>2, <2>4, <2>5, <2>6, <2>7, <2>8 DEF ListInv, ListIsSound
(* a request *)
<1>12. ASSUME NEW t \in Threads, Request(t) PROVE TrayInv'
  <2>1. PICK n \in Names : /\ CanAsk(t) /\ UNCHANGED <<list, folder, hub, open, calls, adrift>>
                           /\ call' = [call EXCEPT ![t] = IF open[n] # None THEN [at |-> "serving"]
                                                          ELSE [at |-> "lookup", name |-> n]]
    BY <1>12 DEF Request
  <2> DEFINE v == IF open[n] # None THEN [at |-> "serving"] ELSE [at |-> "lookup", name |-> n]
  <2>2. v \in Calls /\ v.at \in {"serving", "lookup"}
    <3>1. [at |-> "lookup", name |-> n] \in Looks
      BY DEF Looks
    <3> QED BY <1>0, <3>1
  <2> HIDE DEF v
  <2>3. call' = [call EXCEPT ![t] = v] /\ call[t] = Idle /\ hub = "up"
    BY <2>1 DEF CanAsk, v
  <2>4. call' \in [Callers -> Calls] /\ ListInv'
    BY <1>0, <1>2, <1>3, <2>1, <2>2, <2>3
  <2> QED BY <2>1, <2>4
<1>13. ASSUME NEW t \in Threads, LookUp(t) PROVE TrayInv'
  <2> DEFINE n == call[t].name
             f == CHOOSE g \in PathsOf(list, n) : TRUE
             o == [at |-> "opening", name |-> n, path |-> f]
             v == IF n \notin Listed(list) THEN Idle ELSE o
  <2>1. call[t] \in Looks /\ call[t].at = "lookup" /\ n \in Names
    BY <1>0, <1>1, <1>2, <1>13 DEF LookUp
  <2>2. call' = [call EXCEPT ![t] = v] /\ UNCHANGED <<list, folder, hub, open, calls, adrift>>
    BY <1>13 DEF LookUp
  <2>3. n \in Listed(list) => f \in PathsOf(list, n) /\ f \in Folders
    <3>1. n \in Listed(list) => \E g : g \in PathsOf(list, n)
      BY DEF Listed, PathsOf
    <3>2. PathsOf(list, n) \subseteq Folders
      BY DEF PathsOf, Tables, Entries
    <3> HIDE DEF n
    <3> QED BY <3>1, <3>2
  <2>4. o.at = "opening" /\ o.name = n /\ o.path = f
    OBVIOUS
  <2>5. n \in Listed(list) => o \in Opens
    <3> HIDE DEF n, f
    <3> QED BY <2>1, <2>3 DEF Opens
  <2>6. call[t] # Idle /\ hub \notin {"down", "starting"}
    BY <1>0, <2>1 DEF ListInv, NoServerNoRequests
  <2> HIDE DEF n, f, o
  <2>7. v \in Calls /\ (v = Idle \/ (v = o /\ f \in PathsOf(list, n)))
    BY <1>0, <2>3, <2>5
  <2> HIDE DEF v
  <2>8. call' \in [Callers -> Calls] /\ ListInv'
    BY <1>0, <1>2, <1>3, <2>1, <2>2, <2>4, <2>6, <2>7
  <2> QED BY <2>2, <2>8
<1>14. ASSUME NEW t \in Threads, OpenDit(t) PROVE TrayInv'
  <2> DEFINE o == [call[t] EXCEPT !.at = "insert"]
             v == IF folder[call[t].path] \in {"plain", "workspace"} THEN o ELSE Idle
  <2>1. call[t] \in Opens /\ call[t].at = "opening"
    BY <1>0, <1>1, <1>2, <1>14 DEF OpenDit
  <2>2. call' = [call EXCEPT ![t] = v] /\ UNCHANGED <<list, folder, hub, open, calls, adrift>>
    BY <1>14 DEF OpenDit
  <2>3. o \in Opens /\ o.at = "insert" /\ o.name = call[t].name /\ o.path = call[t].path
    BY <2>1 DEF Opens
  <2>4. call[t] # Idle /\ hub \notin {"down", "starting"}
    BY <1>0, <2>1 DEF ListInv, NoServerNoRequests
  <2>5. call[t].name \in adrift \/ call[t].path \in PathsOf(list, call[t].name)
    BY <2>1 DEF ListInv, OpensListed
  <2> HIDE DEF o
  <2>6. v \in Calls /\ (v = Idle \/ v = o)
    BY <1>0, <2>3
  <2> HIDE DEF v
  <2>7. call' \in [Callers -> Calls] /\ ListInv'
    BY <1>0, <1>2, <1>3, <2>1, <2>2, <2>3, <2>4, <2>5, <2>6
  <2> QED BY <2>2, <2>7
<1>15. ASSUME NEW t \in Threads, Insert(t) PROVE TrayInv'
  <2> DEFINE v == [at |-> "serving"]
             n == call[t].name
             f == call[t].path
  <2>1. call[t] \in Opens /\ call[t].at = "insert" /\ n \in Names /\ f \in Folders
    BY <1>0, <1>1, <1>2, <1>15 DEF Insert
  <2>2. open' = [open EXCEPT ![n] = f] /\ call' = [call EXCEPT ![t] = v]
        /\ UNCHANGED <<list, folder, hub, calls, adrift>>
    BY <1>15 DEF Insert
  <2>3. call[t] # Idle /\ hub \notin {"down", "starting"}
    BY <1>0, <2>1 DEF ListInv, NoServerNoRequests
  <2>4. n \in adrift \/ f \in PathsOf(list, n)
    BY <2>1 DEF ListInv, OpensListed
  <2>5. v \in Calls /\ v.at = "serving"
    BY <1>0
  <2> HIDE DEF v, n, f
  <2>6. call'[t] = v /\ \A d \in Callers \ {t} : call'[d] = call[d]
    BY <1>2, <2>2
  <2>7. call' \in [Callers -> Calls] /\ open' \in [Names -> Folders \union {None}]
    BY <2>1, <2>2, <2>5
  <2>8. PlansAreSound' /\ OpensListed' /\ NoServerNoRequests'
    BY <1>2, <2>2, <2>3, <2>5, <2>6 DEF ListInv, PlansAreSound, OpensListed, NoServerNoRequests
  <2>9. ServedIsListed'
    <3> SUFFICES ASSUME NEW m \in Names, open'[m] # None, m \notin adrift
                 PROVE  \/ open'[m] \in PathsOf(list, m)
                        \/ \E u \in Threads : call'[u].at = "close" /\ call'[u].name = m
      BY <2>2 DEF ServedIsListed
    <3>1. CASE m = n
      BY <2>1, <2>2, <2>4, <3>1
    <3>2. CASE m # n
      <4>1. open'[m] = open[m]
        BY <2>1, <2>2, <3>2
      <4>2. open[m] \in PathsOf(list, m) \/ \E u \in Threads : call[u].at = "close" /\ call[u].name = m
        BY <4>1 DEF ListInv, ServedIsListed
      <4> QED BY <1>2, <2>1, <2>6, <4>1, <4>2
    <3> QED BY <3>1, <3>2
  <2> QED BY <2>2, <2>7, <2>8, <2>9 DEF ListInv, ListIsSound
<1>16. ASSUME NEW t \in Threads, Answer(t) PROVE TrayInv'
  <2>1. call' \in [Callers -> Calls] /\ ListInv'
    BY <1>0, <1>2, <1>3, <1>16 DEF Answer
  <2> QED BY <1>16, <2>1 DEF Answer
<1>17. Commands \subseteq Callers
  BY DEF Callers
<1> QED
  BY <1>2, <1>5, <1>6, <1>7, <1>8, <1>9, <1>10, <1>11, <1>12, <1>13, <1>14, <1>15, <1>16, <1>17
     DEF Machine, ThreadStep

(* Every step of the machine or of a command keeps the invariant.          *)
LEMMA NextInv == TrayInv /\ [Next]_all => TrayInv'
<1>1. ASSUME TrayInv, UNCHANGED all PROVE TrayInv'
  BY <1>1 DEF all, vars, tray, TrayInv, TypeOK, ListInv, ListIsSound, PlansAreSound, OpensListed,
              ServedIsListed, NoServerNoRequests
<1> QED BY <1>1, AppInv, MachineInv DEF Next

(* The invariant holds whatever the processes do.                          *)
LEMMA Invariance == Spec => []TrayInv
BY InitInv, NextInv, PTL DEF Spec

-----------------------------------------------------------------------------
(* Every variable keeps its type.                                          *)
THEOREM TypeCorrect == Spec => []TypeOK
<1>1. TrayInv => TypeOK
  BY DEF TrayInv
<1> QED BY <1>1, Invariance, PTL

(* However calls overlap, lose each other's entries and die, a name of the *)
(* saved list is one folder's, and its default is one it lists.            *)
THEOREM ListStaysSound == Spec => []ListIsSound
<1>1. TrayInv => ListIsSound
  BY DEF TrayInv, ListInv
<1> QED BY <1>1, Invariance, PTL

(* The server serves under a name the folder that is listed under it.      *)
THEOREM ServesWhatIsListed == Spec => []ServedIsListed
<1>1. TrayInv => ServedIsListed
  BY DEF TrayInv, ListInv
<1> QED BY <1>1, Invariance, PTL

(* A call that no other save overlapped leaves the entries of others.      *)
THEOREM EntriesStay == Spec => OthersEntriesStay
<1>1. ASSUME TrayInv, [Next]_all
      PROVE  [\A c \in Callers :
                (call[c].at = "save" /\ call[c].alone /\ call'[c].at # "save" /\ list' # list)
                => Moved(list, list') \subseteq {call[c].name}]_vars
  <2> SUFFICES ASSUME Next, NEW c \in Callers, call[c].at = "save", call[c].alone,
                      call'[c].at # "save", list' # list
               PROVE  Moved(list, list') \subseteq {call[c].name}
    BY <1>1 DEF all, vars
  <2>1. Moved(list, call[c].next) \subseteq {call[c].name}
    BY <1>1 DEF TrayInv, ListInv, PlansAreSound
  <2>2. ~(ServerStep \/ AppStep)
    BY DEF ServerStep, AppStep, Bind, ParentGone, Exit, Gone, Launch, GitCame, Tick, Start, MenuStop, Quit,
           Stop, QuitAlone, Stopped, Patience, Kill, Killed, Spawn, world, tray
  <2>3. PICK d \in Callers : Save(d)
    BY <2>2 DEF Next, Machine, ThreadStep, Create, Add, Remove, SetDefault, WillSave, Fail, Make, Request,
           Close, LookUp, OpenDit, Insert, Answer, Callers
  <2>4. d = c
    <3>1. CASE d # c
      <4>1. call'[c] = [call[c] EXCEPT !.alone = FALSE]
        BY <2>3, <3>1 DEF Save
      <4>2. call[c] \in Changes
        BY <1>1 DEF TrayInv, TypeOK, Calls, Idle, Looks, Opens
      <4>3. call'[c].at = "save"
        BY <4>1, <4>2 DEF Changes
      <4> QED BY <4>3
    <3> QED BY <3>1
  <2> QED BY <2>1, <2>3, <2>4 DEF Save
<1> QED BY <1>1, Invariance, PTL DEF Spec, OthersEntriesStay

(* A server does not end under a request it works on, unless the           *)
(* application has waited its whole patience.                              *)
THEOREM StopsAreClean == Spec => StopsBetweenRequests
<1>1. ASSUME TrayInv, [Next]_all
      PROVE  [hub # "down" /\ hub' = "down" /\ InFlight # {} => Waits /\ impatient]_all
  <2> SUFFICES ASSUME Next, hub # "down", hub' = "down", InFlight # {}
               PROVE  Waits /\ impatient
    BY <1>1 DEF all
  <2>1. hub # "starting"
    BY <1>1 DEF InFlight, TrayInv, ListInv, NoServerNoRequests
  <2>2. ~Machine
    BY DEF Machine, ThreadStep, Create, Add, Remove, SetDefault, WillSave, Fail, Make, Save, Request,
           Close, LookUp, OpenDit, Insert, Answer
  <2>3. ~ServerStep
    BY DEF ServerStep, Bind, ParentGone, Exit
  <2>4. ~(Launch \/ GitCame \/ Start)
    BY DEF Launch, GitCame, Start, Spawn
  <2>5. ~(MenuStop \/ Quit)
    BY <2>1 DEF MenuStop, Quit, Stop
  <2>6. ~(Tick \/ QuitAlone \/ Stopped \/ Patience \/ Killed)
    BY DEF Tick, QuitAlone, Stopped, Patience, Killed
  <2>7. Kill
    BY <2>2, <2>3, <2>4, <2>5, <2>6 DEF Next, AppStep
  <2> QED BY <2>7 DEF Kill
<1> QED BY <1>1, Invariance, PTL DEF Spec, StopsBetweenRequests

-----------------------------------------------------------------------------
(* Why the binary is whole: who writes was given a release with a          *)
(* checksum, the one that was asked for, and has a file open; the file     *)
(* beside the executable is never the executable's; and where no two ever  *)
(* wrote at once, the one that writes has the file beside open and has     *)
(* written what comes before.                                              *)
GivenSigned ==
    \A u \in Upgrader : up[u].at \in {"download", "stage"} \union Writing =>
        up[u].tag \in Signed /\ up[u].wanted \in {Latest, up[u].tag}

HasOpened == \A u \in Upgrader : up[u].at \in Writing => up[u].fd # 0

BesideIsApart == staged # exe

WrittenSoFar(u) ==
    /\ up[u].fd = staged /\ staged # 0
    /\ \A o \in Upgrader : up[o].at \in Writing => o = u
    /\ up[u].at = "tail" => file[staged].head = up[u].tag
    /\ up[u].at = "rename" => file[staged] = Whole(up[u].tag)

OneWrites == ~crossed => \A u \in Upgrader : up[u].at \in Writing => WrittenSoFar(u)

ExeIsWhole == ~crossed => \E v \in Signed \union {Installed} : file[exe] = Whole(v)

UpgradeInv == UpgradeTypeOK /\ GivenSigned /\ HasOpened /\ BesideIsApart /\ OneWrites /\ ExeIsWhole

(* The invariant holds at first.                                           *)
LEMMA UpgradeInitInv == UpgradeInit => UpgradeInv
<1> SUFFICES ASSUME UpgradeInit PROVE UpgradeInv
  OBVIOUS
<1> USE UpgradeAssumption DEF UpgradeInit
<1>1. Whole(Installed) \in [head : Half, tail : Half]
  BY DEF Whole, Half
<1>2. file \in Seq([head : Half, tail : Half]) /\ exe \in DOMAIN file
  BY <1>1
<1>3. NotUpgrading \in [at : {"idle", "fetch", "download", "stage"} \union Writing,
                        wanted : Version \union {Latest}, runs : Version, tag : Version,
                        fd : {0} \union DOMAIN file]
  BY DEF NotUpgrading
<1>4. UpgradeTypeOK
  <2>1. up \in [Upgrader -> [at : {"idle", "fetch", "download", "stage"} \union Writing,
                            wanted : Version \union {Latest}, runs : Version, tag : Version,
                            fd : {0} \union DOMAIN file]]
    BY <1>3
  <2>2. upgrades \in 0..MaxUpgrades /\ staged = 0 /\ crossed = FALSE
    OBVIOUS
  <2> QED BY <1>2, <2>1, <2>2 DEF UpgradeTypeOK
<1>5. \A u \in Upgrader : up[u].at = "idle"
  BY DEF NotUpgrading
<1>6. GivenSigned /\ HasOpened /\ OneWrites
  BY <1>5 DEF GivenSigned, HasOpened, OneWrites, Writing
<1>7. BesideIsApart /\ ExeIsWhole
  BY DEF BesideIsApart, ExeIsWhole
<1> QED BY <1>4, <1>6, <1>7 DEF UpgradeInv

(* What a call is at, given the files there are.                           *)
Steps(n) == [at : {"idle", "fetch", "download", "stage"} \union Writing,
             wanted : Version \union {Latest}, runs : Version, tag : Version, fd : 0..n]

(* What writing one half of a file does to the other: nothing.             *)
LEMMA HalfWritten ==
    ASSUME NEW q \in [head : Half, tail : Half], NEW t \in Half
    PROVE  /\ [q EXCEPT !.head = t] \in [head : Half, tail : Half]
           /\ [q EXCEPT !.tail = t] \in [head : Half, tail : Half]
           /\ [q EXCEPT !.head = t].head = t
           /\ q.head = t => [q EXCEPT !.tail = t] = Whole(t)
BY DEF Whole

(* One call's step that leaves the files alone and does not begin to write.*)
LEMMA UpgradeOwnStep ==
    ASSUME UpgradeInv, NEW u \in Upgrader, NEW v \in Steps(Len(file)),
           up' = [up EXCEPT ![u] = v], UNCHANGED <<file, exe, staged, crossed>>,
           v.at \notin Writing,
           v.at \in {"download", "stage"} => v.tag \in Signed /\ v.wanted \in {Latest, v.tag},
           upgrades' \in 0..MaxUpgrades
    PROVE  UpgradeInv'
<1> USE DEF UpgradeInv
<1>1. up'[u] = v /\ \A o \in Upgrader \ {u} : up'[o] = up[o]
  BY DEF UpgradeTypeOK
<1>2. DOMAIN file = 1..Len(file) /\ {0} \union DOMAIN file = 0..Len(file)
  BY DEF UpgradeTypeOK
<1>3. UpgradeTypeOK'
  BY <1>1, <1>2 DEF UpgradeTypeOK, Steps
<1>4. GivenSigned' /\ HasOpened'
  BY <1>1 DEF GivenSigned, HasOpened
<1>5. OneWrites'
  BY <1>1 DEF OneWrites, WrittenSoFar
<1>6. BesideIsApart' /\ ExeIsWhole'
  BY DEF BesideIsApart, ExeIsWhole
<1> QED BY <1>3, <1>4, <1>5, <1>6

(* Every step of an upgrade keeps the invariant.                           *)
LEMMA UpgradeNextInv == UpgradeInv /\ [UpgradeNext]_upgradeVars => UpgradeInv'
<1> USE UpgradeAssumption DEF UpgradeInv
<1>1. ASSUME UpgradeInv, UNCHANGED upgradeVars PROVE UpgradeInv'
  BY <1>1 DEF upgradeVars, UpgradeTypeOK, GivenSigned, HasOpened, BesideIsApart, OneWrites, WrittenSoFar, ExeIsWhole
<1> SUFFICES ASSUME UpgradeInv, NEW u \in Upgrader PROVE
      /\ (\E v \in Version \union {Latest} : Upgrade_(u, v)) => UpgradeInv'
      /\ (\E v \in Version : FetchRelease(u, v)) => UpgradeInv'
      /\ (\E intact, built \in BOOLEAN : Download(u, intact, built)) => UpgradeInv'
      /\ Stage(u) => UpgradeInv'
      /\ WriteHead(u) => UpgradeInv'
      /\ WriteTail(u) => UpgradeInv'
      /\ (\E works \in BOOLEAN : RenameOver(u, works)) => UpgradeInv'
      /\ StopUpgrade(u) => UpgradeInv'
  BY <1>1 DEF UpgradeNext
<1>2. /\ DOMAIN file = 1..Len(file) /\ {0} \union DOMAIN file = 0..Len(file)
      /\ Len(file) \in Nat /\ exe \in 1..Len(file) /\ staged \in 0..Len(file)
      /\ up[u] \in Steps(Len(file)) /\ up \in [Upgrader -> Steps(Len(file))]
      /\ upgrades \in 0..MaxUpgrades
  BY DEF UpgradeTypeOK, Steps
<1>3. NotUpgrading \in Steps(Len(file)) /\ NotUpgrading.at = "idle" /\ "idle" \notin Writing
  BY <1>2 DEF NotUpgrading, Steps, Writing
<1>4. \A v \in Version \union {Latest} : Upgrade_(u, v) => UpgradeInv'
  <2> SUFFICES ASSUME NEW w \in Version \union {Latest}, Upgrade_(u, w) PROVE UpgradeInv'
    OBVIOUS
  <2>1. PICK v \in Version : up' = [up EXCEPT ![u] = [at |-> "fetch", wanted |-> w, runs |-> v,
                                                     tag |-> v, fd |-> 0]]
    BY DEF Upgrade_
  <2>2. [at |-> "fetch", wanted |-> w, runs |-> v, tag |-> v, fd |-> 0] \in Steps(Len(file))
    BY <1>2 DEF Steps
  <2>3. upgrades' \in 0..MaxUpgrades /\ "fetch" \notin Writing
    BY <1>2 DEF Upgrade_, Writing
  <2> QED BY <2>1, <2>2, <2>3, UpgradeOwnStep DEF Upgrade_
<1>5. \A v \in Version : FetchRelease(u, v) => UpgradeInv'
  <2> SUFFICES ASSUME NEW t \in Version, FetchRelease(u, t) PROVE UpgradeInv'
    OBVIOUS
  <2>1. CASE t = up[u].runs \/ t \notin Signed
    BY <1>2, <1>3, <2>1, UpgradeOwnStep DEF FetchRelease, EndsUpgrade
  <2>2. CASE ~(t = up[u].runs \/ t \notin Signed)
    <3> DEFINE v == [up[u] EXCEPT !.at = "download", !.tag = t]
    <3>1. v \in Steps(Len(file)) /\ v.at = "download" /\ v.tag = t /\ v.wanted = up[u].wanted
      BY <1>2 DEF Steps
    <3>2. up' = [up EXCEPT ![u] = v]
      BY <1>2, <2>2 DEF FetchRelease
    <3> HIDE DEF v
    <3> QED BY <1>2, <2>2, <3>1, <3>2, UpgradeOwnStep DEF FetchRelease, Writing
  <2> QED BY <2>1, <2>2
<1>6. \A intact, built \in BOOLEAN : Download(u, intact, built) => UpgradeInv'
  <2> SUFFICES ASSUME NEW intact \in BOOLEAN, NEW built \in BOOLEAN, Download(u, intact, built)
               PROVE UpgradeInv'
    OBVIOUS
  <2>1. CASE ~(intact /\ ~built)
    BY <1>2, <1>3, <2>1, UpgradeOwnStep DEF Download, EndsUpgrade
  <2>2. CASE intact /\ ~built
    <3> DEFINE v == [up[u] EXCEPT !.at = "stage"]
    <3>1. v \in Steps(Len(file)) /\ v.at = "stage" /\ v.tag = up[u].tag /\ v.wanted = up[u].wanted
      BY <1>2 DEF Steps
    <3>2. up' = [up EXCEPT ![u] = v]
      BY <1>2, <2>2 DEF Download, GoesOn
    <3>3. up[u].tag \in Signed /\ up[u].wanted \in {Latest, up[u].tag}
      BY DEF Download, GivenSigned
    <3> HIDE DEF v
    <3> QED BY <1>2, <3>1, <3>2, <3>3, UpgradeOwnStep DEF Download, Writing
  <2> QED BY <2>1, <2>2
<1>7. StopUpgrade(u) => UpgradeInv'
  BY <1>2, <1>3, UpgradeOwnStep DEF StopUpgrade, EndsUpgrade
<1>8. Stage(u) => UpgradeInv'
  <2> SUFFICES ASSUME Stage(u) PROVE UpgradeInv'
    OBVIOUS
  <2> DEFINE v == [up[u] EXCEPT !.at = "head", !.fd = staged']
  <2>1. up' = [up EXCEPT ![u] = v] /\ up'[u] = v /\ \A o \in Upgrader \ {u} : up'[o] = up[o]
    BY <1>2 DEF Stage, OpensStaged
  <2>2. v.at = "head" /\ v.fd = staged' /\ v.tag = up[u].tag /\ v.wanted = up[u].wanted
        /\ v.runs = up[u].runs
    BY <1>2 DEF Steps
  <2>3. Empty \in [head : Half, tail : Half]
    BY DEF Empty, Whole, Half
  <2>4. /\ file' \in Seq([head : Half, tail : Half])
        /\ Len(file') \in Nat /\ Len(file') >= Len(file) /\ DOMAIN file' = 1..Len(file')
        /\ staged' \in 1..Len(file') /\ staged' # exe
        /\ file'[exe] = file[exe]
    <3>1. CASE staged = 0
      <4>1. staged' = Len(file) + 1 /\ file' = Append(file, Empty)
        BY <3>1 DEF Stage
      <4>2. file' \in Seq([head : Half, tail : Half]) /\ Len(file') = Len(file) + 1
        BY <2>3, <4>1 DEF UpgradeTypeOK
      <4>3. file'[exe] = file[exe]
        BY <1>2, <4>1 DEF UpgradeTypeOK
      <4> QED BY <1>2, <4>1, <4>2, <4>3
    <3>2. CASE staged # 0
      <4>1. staged' = staged /\ file' = [file EXCEPT ![staged] = Empty]
        BY <3>2 DEF Stage
      <4>2. file' \in Seq([head : Half, tail : Half]) /\ Len(file') = Len(file)
        BY <1>2, <2>3, <3>2, <4>1 DEF UpgradeTypeOK
      <4>3. file'[exe] = file[exe] /\ staged # exe
        BY <1>2, <4>1 DEF UpgradeTypeOK, BesideIsApart
      <4> QED BY <1>2, <3>2, <4>1, <4>2, <4>3
    <3> QED BY <3>1, <3>2
  <2>5. exe' = exe /\ upgrades' = upgrades
        /\ crossed' = (crossed \/ \E o \in Upgrader \ {u} : up[o].at \in Writing)
    BY DEF Stage
  <2>6. UpgradeTypeOK'
    <3>1. \A o \in Upgrader : up[o] \in Steps(Len(file'))
      BY <1>2, <2>4 DEF Steps
    <3>2. v \in Steps(Len(file'))
      <4>1. staged' \in 0..Len(file') /\ "head" \in Writing
        BY <2>4 DEF Writing
      <4> QED BY <3>1, <4>1 DEF Steps
    <3>3. up' \in [Upgrader -> Steps(Len(file'))]
      BY <1>2, <2>1, <3>1, <3>2
    <3>4. {0} \union DOMAIN file' = 0..Len(file')
      BY <2>4
    <3>5. crossed' \in BOOLEAN
      BY <2>5 DEF UpgradeTypeOK
    <3> HIDE DEF v
    <3> QED BY <1>2, <2>4, <2>5, <3>3, <3>4, <3>5 DEF UpgradeTypeOK, Steps
  <2>7. up[u].at = "stage" /\ up[u].tag \in Signed /\ up[u].wanted \in {Latest, up[u].tag}
    BY DEF Stage, GivenSigned
  <2> HIDE DEF v
  <2>8. GivenSigned' /\ HasOpened'
    BY <2>1, <2>2, <2>4, <2>7 DEF GivenSigned, HasOpened
  <2>9. BesideIsApart'
    BY <2>4, <2>5 DEF BesideIsApart
  <2>10. OneWrites'
    <3> SUFFICES ASSUME ~crossed', NEW o \in Upgrader, up'[o].at \in Writing PROVE WrittenSoFar(o)'
      BY DEF OneWrites
    <3>1. \A p \in Upgrader \ {u} : up[p].at \notin Writing
      BY <2>5
    <3>2. o = u
      BY <2>1, <3>1
    <3> QED BY <1>2, <2>1, <2>2, <2>4, <3>1, <3>2 DEF WrittenSoFar
  <2>11. ExeIsWhole'
    BY <2>4, <2>5 DEF ExeIsWhole
  <2> QED BY <2>6, <2>8, <2>9, <2>10, <2>11
<1>9. ASSUME NEW at \in Writing, NEW r \in [head : Half, tail : Half],
             up[u].at \in Writing, GoesOn(u, at), UNCHANGED <<exe, staged, upgrades, crossed>>,
             file' = [file EXCEPT ![up[u].fd] = r],
             at = "tail" => r.head = up[u].tag,
             at = "rename" /\ ~crossed => r = Whole(up[u].tag)
      PROVE  UpgradeInv'
  <2> DEFINE v == [up[u] EXCEPT !.at = at]
  <2>1. up' = [up EXCEPT ![u] = v] /\ up'[u] = v /\ \A o \in Upgrader \ {u} : up'[o] = up[o]
    BY <1>2, <1>9 DEF GoesOn
  <2>2. v \in Steps(Len(file)) /\ v.at = at /\ v.tag = up[u].tag /\ v.wanted = up[u].wanted
        /\ v.fd = up[u].fd
    BY <1>2, <1>9 DEF Steps
  <2> HIDE DEF v
  <2>3. up[u].tag \in Version /\ up[u].fd \in 0..Len(file)
    BY <1>2 DEF Steps
  <2>4. file' \in Seq([head : Half, tail : Half]) /\ DOMAIN file' = DOMAIN file
    <3>1. up[u].fd \in 1..Len(file) /\ file \in Seq([head : Half, tail : Half])
      BY <1>2, <1>9, <2>3 DEF UpgradeTypeOK, HasOpened
    <3> HIDE DEF UpgradeInv
    <3> QED BY <1>9, <3>1
  <2>5. UpgradeTypeOK'
    BY <1>2, <1>9, <2>1, <2>2, <2>4 DEF UpgradeTypeOK, Steps
  <2>6. GivenSigned' /\ HasOpened'
    BY <1>9, <2>1, <2>2 DEF GivenSigned, HasOpened
  <2>7. BesideIsApart'
    BY <1>9 DEF BesideIsApart
  <2>8. ~crossed => /\ WrittenSoFar(u) /\ up[u].fd = staged /\ staged \in 1..Len(file)
                    /\ \A o \in Upgrader \ {u} : up[o].at \notin Writing
    BY <1>2, <1>9 DEF OneWrites, WrittenSoFar
  <2>9. OneWrites'
    <3> SUFFICES ASSUME ~crossed, NEW o \in Upgrader, up'[o].at \in Writing PROVE WrittenSoFar(o)'
      BY <1>9 DEF OneWrites
    <3>1. o = u
      BY <2>1, <2>8
    <3>2. \A q \in Upgrader : up'[q].at \in Writing => q = u
      BY <2>1, <2>8
    <3>3. file'[staged] = r
      BY <1>2, <1>9, <2>8 DEF UpgradeTypeOK
    <3> QED BY <1>9, <2>1, <2>2, <2>8, <3>1, <3>2, <3>3 DEF WrittenSoFar
  <2>10. ExeIsWhole'
    BY <1>2, <1>9, <2>8 DEF ExeIsWhole, BesideIsApart, UpgradeTypeOK
  <2> QED BY <2>5, <2>6, <2>7, <2>9, <2>10
<1>10. ASSUME up[u].at \in Writing
       PROVE  up[u].tag \in Half /\ file[up[u].fd] \in [head : Half, tail : Half]
  <2>1. up[u].tag \in Half
    BY <1>2 DEF Steps, Half
  <2>2. up[u].fd \in 1..Len(file)
    BY <1>2, <1>10 DEF Steps, HasOpened
  <2>3. file \in Seq([head : Half, tail : Half])
    BY DEF UpgradeTypeOK
  <2>4. \A S : \A q \in Seq(S) : \A i \in 1..Len(q) : q[i] \in S
    OBVIOUS
  <2>5. file[up[u].fd] \in [head : Half, tail : Half]
    BY <2>2, <2>3, <2>4, Zenon
  <2> QED BY <2>1, <2>5
<1>11. WriteHead(u) => UpgradeInv'
  <2> SUFFICES ASSUME WriteHead(u) PROVE UpgradeInv'
    OBVIOUS
  <2>1. up[u].at \in Writing /\ "tail" \in Writing /\ "tail" # "rename"
    BY DEF WriteHead, Writing
  <2> DEFINE r == [file[up[u].fd] EXCEPT !.head = up[u].tag]
  <2>2. r \in [head : Half, tail : Half] /\ r.head = up[u].tag
    BY <1>10, <2>1, HalfWritten
  <2>3. /\ file' = [file EXCEPT ![up[u].fd] = r] /\ GoesOn(u, "tail")
        /\ UNCHANGED <<exe, staged, upgrades, crossed>>
    BY DEF WriteHead
  <2> HIDE DEF r, UpgradeInv
  <2> QED BY <1>9, <2>1, <2>2, <2>3
<1>12. WriteTail(u) => UpgradeInv'
  <2> SUFFICES ASSUME WriteTail(u) PROVE UpgradeInv'
    OBVIOUS
  <2>1. up[u].at \in Writing /\ "rename" \in Writing /\ "tail" # "rename"
    BY DEF WriteTail, Writing
  <2>2. ~crossed => up[u].fd = staged /\ file[up[u].fd].head = up[u].tag
    BY <2>1 DEF WriteTail, OneWrites, WrittenSoFar
  <2> DEFINE r == [file[up[u].fd] EXCEPT !.tail = up[u].tag]
  <2>3. r \in [head : Half, tail : Half] /\ (~crossed => r = Whole(up[u].tag))
    BY <1>10, <2>1, <2>2, HalfWritten
  <2>4. /\ file' = [file EXCEPT ![up[u].fd] = r] /\ GoesOn(u, "rename")
        /\ UNCHANGED <<exe, staged, upgrades, crossed>>
    BY DEF WriteTail
  <2> HIDE DEF r, UpgradeInv
  <2> QED BY <1>9, <2>1, <2>3, <2>4
<1>13. \A works \in BOOLEAN : RenameOver(u, works) => UpgradeInv'
  <2> SUFFICES ASSUME NEW works \in BOOLEAN, RenameOver(u, works) PROVE UpgradeInv'
    OBVIOUS
  <2>1. up' = [up EXCEPT ![u] = NotUpgrading] /\ up'[u] = NotUpgrading
        /\ \A o \in Upgrader \ {u} : up'[o] = up[o]
    BY <1>2 DEF RenameOver, EndsUpgrade
  <2>2. staged' = 0 /\ exe' \in {exe, staged} \ {0} /\ UNCHANGED <<file, upgrades, crossed>>
    BY <1>2 DEF RenameOver
  <2>3. UpgradeTypeOK'
    BY <1>2, <1>3, <2>1, <2>2 DEF UpgradeTypeOK, Steps
  <2>4. GivenSigned' /\ HasOpened'
    BY <1>3, <2>1 DEF GivenSigned, HasOpened, NotUpgrading, Writing
  <2>5. BesideIsApart'
    BY <2>2 DEF BesideIsApart
  <2>6. ~crossed => WrittenSoFar(u) /\ \A o \in Upgrader \ {u} : up[o].at \notin Writing
    BY DEF RenameOver, OneWrites, WrittenSoFar, Writing
  <2>7. OneWrites'
    BY <1>3, <2>1, <2>2, <2>6 DEF OneWrites
  <2>8. ExeIsWhole'
    <3> SUFFICES ASSUME ~crossed PROVE \E v \in Signed \union {Installed} : file[exe'] = Whole(v)
      BY <2>2 DEF ExeIsWhole
    <3>1. file[staged] = Whole(up[u].tag) /\ up[u].tag \in Signed
      BY <2>6 DEF WrittenSoFar, RenameOver, GivenSigned, Writing
    <3> QED BY <2>2, <3>1 DEF ExeIsWhole
  <2> QED BY <2>3, <2>4, <2>5, <2>7, <2>8
<1> QED BY <1>4, <1>5, <1>6, <1>7, <1>8, <1>11, <1>12, <1>13

(* The invariant holds whatever the upgrades do.                           *)
LEMMA UpgradeInvariance == UpgradeSpec => []UpgradeInv
BY UpgradeInitInv, UpgradeNextInv, PTL DEF UpgradeSpec

(* Whatever failed and whoever died, what runs under the name of dit is a  *)
(* whole binary that was held against its checksum; unless two upgrades    *)
(* wrote at once.                                                          *)
THEOREM BinaryStaysWhole == UpgradeSpec => []BinaryIsWhole
<1>1. UpgradeInv => BinaryIsWhole
  BY DEF UpgradeInv, ExeIsWhole, OneWrites, WrittenSoFar, GivenSigned, BinaryIsWhole, Writing
<1> QED BY <1>1, UpgradeInvariance, PTL
=============================================================================
