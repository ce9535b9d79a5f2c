------------------------------ MODULE Workbench ------------------------------
(***************************************************************************)
(* The Morse workbench of one machine: the specs that are registered in    *)
(* the configuration, the environments and the hosts to be trusted in the  *)
(* local file, requests that are sent, and scenarios that are imported.    *)
(*                                                                         *)
(* The local file is read, changed and written without a lock.  The        *)
(* configuration is written under the lock, but from the copy a process    *)
(* has held since it opened the workspace.  A page is written under the    *)
(* lock too, from what was read before it.                                 *)
(*                                                                         *)
(* Code: dit-core/src/morse.rs, dit-morse/src/local.rs.                    *)
(***************************************************************************)
EXTENDS Naturals, Sequences, FiniteSets

CONSTANTS
    Tool,         \* processes
    Lasting,      \* those that keep the workspace open
    SpecId,       \* documents; of the spec of the same name
    Unusable,     \* those that HEAD does not hold or that are no OpenAPI
    Serves,       \* the host each document names, or Nil
    Environ,      \* names of environments, one of them "default"
    ImportNames,  \* the names an imported environment may get, in order
    Host, Variable,
    Pipeline,     \* what the variables of CI add for each process
    HeadFiles,    \* files at HEAD
    Task,         \* what the processes are asked to do
    Nil,          \* nothing: no environment, no server, no task
    MaxTasks, MaxByHand, MaxFaults      \* bounds

VARIABLES
    local,        \* .dit/morse.local.yaml: environments and allowed hosts
    config,       \* the registered specs, in the file
    committed,    \* and at HEAD
    held,         \* the copy each process has
    catalogue,    \* the specs in the index
    page,         \* the scenarios in the page, in the order of their fences
    task,         \* what each process is at
    asked,        \* tasks begun
    byHand,       \* edits of the local file by a person
    faults,
    given,        \* ghost: hosts that were allowed by a person, ever
    entered,      \* ghost: variables that were given a value, ever
    reached,      \* ghost: hosts that were sent a request
    raced         \* ghost: a write rested on what was not so any more

registryVars  == <<config, committed, held, catalogue>>
workbenchVars == <<local, config, committed, held, catalogue, page, task, asked, byHand, faults,
                   given, entered, reached, raced>>

LocalEnv    == [server : Host \union {Nil}, vars : SUBSET Variable]
LocalConfig == [envs : [Environ -> LocalEnv \union {Nil}], allow : SUBSET Host]
NewEnv      == [server |-> Nil, vars |-> {}]
OrNew(env)  == IF env = Nil THEN NewEnv ELSE env

(* What the processes may be asked to do.                                  *)
IsEdit(edit) ==
    /\ edit.name \in Environ
    /\ \/ /\ edit.kind = "upsert" /\ edit.server \in Host \union {Nil, "keep"}
          /\ edit.plain \in BOOLEAN /\ edit.set \subseteq Variable
       \/ edit.kind = "rename" /\ edit.to \in Environ
       \/ edit.kind = "delete"
IsJob(job) ==
    \/ job.op = "allow" /\ job.host \in Host
    \/ job.op = "edit" /\ IsEdit(job.edit)
    \/ job.op = "import env" /\ job.server \in Host \union {Nil} /\ job.vars \subseteq Variable
    \/ job.op \in {"register", "unregister"} /\ job.id \in SpecId
    \/ job.op = "import" /\ job.spec \in SpecId
    \/ job.op = "send" /\ job.spec \in SpecId /\ job.env \in Environ \union {Nil}

ASSUME WorkbenchConstants ==
    /\ "default" \in Environ /\ ImportNames \in Seq(Environ)
    /\ Serves \in [SpecId -> Host \union {Nil}]
    /\ Pipeline \in [Tool -> [allow : SUBSET Host, vars : SUBSET Variable]]
    /\ \A job \in Task : IsJob(job)

-----------------------------------------------------------------------------
(* The local file (LocalConfig).                                           *)
allow(file, host) == [file EXCEPT !.allow = @ \union {host}]

(* For a caller in a pipeline its variables are added to what was read.    *)
overlay(t, file, name) ==
    [envs |-> IF Pipeline[t].vars = {} THEN file.envs
              ELSE [file.envs EXCEPT ![name] =
                       [OrNew(@) EXCEPT !.vars = @ \union Pipeline[t].vars]],
     allow |-> file.allow \union Pipeline[t].allow]
morse_local(t, env) == overlay(t, local, IF env = Nil THEN "default" ELSE env)

(* An edit of an environment: values, a new name, or none.                 *)
EditRefused(file, edit) ==
    \/ edit.kind = "upsert" /\ ~edit.plain         \* a bad name, server or value
    \/ edit.kind # "upsert" /\ file.envs[edit.name] = Nil
    \/ edit.kind = "rename" /\ edit.to # edit.name /\ file.envs[edit.to] # Nil
Upserted(env, edit) ==
    [server |-> IF edit.server = "keep" THEN env.server ELSE edit.server,
     vars |-> (env.vars \ edit.unset) \union edit.set]
Edited(file, edit) ==
    CASE edit.kind = "upsert" ->
            [file EXCEPT !.envs[edit.name] = Upserted(OrNew(@), edit)]
      [] edit.kind = "rename" ->
            [file EXCEPT !.envs[edit.name] = Nil, !.envs[edit.to] = file.envs[edit.name]]
      [] edit.kind = "delete" -> [file EXCEPT !.envs[edit.name] = Nil]
Touched(edit) == {edit.name} \union (IF edit.kind = "rename" THEN {edit.to} ELSE {})

-----------------------------------------------------------------------------
(* What a process does next; what another wrote in between it does not     *)
(* notice.                                                                 *)
Begin(t) ==
    /\ task[t] = Nil /\ asked < MaxTasks
    /\ asked' = asked + 1
    /\ \E job \in Task : task' = [task EXCEPT ![t] = [at |-> job.op, job |-> job, alone |-> TRUE]]
    /\ held' = IF t \in Lasting THEN held ELSE [held EXCEPT ![t] = config]
    /\ UNCHANGED <<local, config, committed, catalogue, page, byHand, faults, given, entered,
                   reached, raced>>

At(t, step) == task[t] # Nil /\ task[t].at = step
Job(t)      == task[t].job
GoesAs(t, step, job) == task' = [task EXCEPT ![t] = [at |-> step, job |-> job, alone |-> @.alone]]
Goes(t, step)        == GoesAs(t, step, Job(t))
GoesWith(t, step, read) ==
    task' = [task EXCEPT ![t] = [at |-> step, job |-> Job(t), alone |-> @.alone, read |-> read]]
Ends(t)             == task' = [task EXCEPT ![t] = Nil]
Crossed(u, steps) == IF task[u] # Nil /\ task[u].at \in steps
                     THEN [task[u] EXCEPT !.alone = FALSE] ELSE task[u]
EndsWithWrite(t, steps) ==
    task' = [u \in Tool |-> IF u = t THEN Nil ELSE Crossed(u, steps)]
OnLocal    == {"write local"}                                   \* what a write may cross
OnRegistry == {"write config", "import page", "import commit"}

(* morse_allow, morse_edit_env: the file, never the pipeline's values.     *)
ReadLocal(t) ==
    /\ At(t, "allow") \/ At(t, "edit")
    /\ IF Job(t).op = "allow" /\ Job(t).host \in local.allow THEN Ends(t)
       ELSE IF Job(t).op = "edit" /\ EditRefused(local, Job(t).edit) THEN Ends(t)
       ELSE GoesWith(t, "write local", local)
    /\ UNCHANGED <<local, registryVars, page, asked, byHand, faults, given, entered, reached, raced>>

Written_WithPipeline(t) ==
    LET file == overlay(t, task[t].read, "default")
    IN  IF Job(t).op = "allow" THEN allow(file, Job(t).host)
        ELSE [Edited(file, Job(t).edit) EXCEPT !.allow = file.allow]
Written(t) ==
    LET file == task[t].read
    IN  IF Job(t).op = "allow" THEN allow(file, Job(t).host)
        ELSE [Edited(file, Job(t).edit) EXCEPT !.allow = file.allow]
WriteLocal(t) ==
    /\ At(t, "write local")
    /\ local' = Written(t)
    /\ given' = IF Job(t).op = "allow" THEN given \union {Job(t).host} ELSE given
    /\ entered' = IF Job(t).op = "edit" /\ Job(t).edit.kind = "upsert"
                  THEN entered \union Job(t).edit.set ELSE entered
    /\ EndsWithWrite(t, OnLocal)
    /\ UNCHANGED <<registryVars, page, asked, byHand, faults, reached, raced>>

(* morse_import_env: a name that no environment has, then an edit.         *)
ImportEnv(t) ==
    /\ At(t, "import env")
    /\ LET taken == {e \in Environ : morse_local(t, Nil).envs[e] # Nil}
           free  == {i \in DOMAIN ImportNames : ImportNames[i] \notin taken}
           edit(name) == [kind |-> "upsert", name |-> name, server |-> Job(t).server, plain |-> TRUE,
                          set |-> Job(t).vars, unset |-> {}]
       IN  /\ free # {}
           /\ \E i \in free :
                 /\ \A j \in free : i <= j
                 /\ GoesAs(t, "edit", [op |-> "edit", edit |-> edit(ImportNames[i])])
    /\ UNCHANGED <<local, registryVars, page, asked, byHand, faults, given, entered, reached, raced>>

(* A person edits the local file, and takes back or gives trust.           *)
EditByHand(host) ==
    /\ byHand < MaxByHand /\ byHand' = byHand + 1
    /\ \/ local' = [local EXCEPT !.allow = @ \ {host}] /\ given' = given
       \/ local' = allow(local, host) /\ given' = given \union {host}
    /\ task' = [t \in Tool |-> Crossed(t, OnLocal)]
    /\ UNCHANGED <<registryVars, page, asked, faults, entered, reached, raced>>

-----------------------------------------------------------------------------
(* The registry.                                                           *)

(* morse_register_spec, morse_unregister_spec, up to the write.            *)
CheckSpec(t) ==
    /\ \/ /\ At(t, "register")
          /\ IF Job(t).id \in held[t] \union Unusable THEN Ends(t) ELSE Goes(t, "write config")
       \/ /\ At(t, "unregister")
          /\ IF Job(t).id \notin held[t] \/ \E i \in DOMAIN page : page[i].spec = Job(t).id
             THEN Ends(t) ELSE Goes(t, "write config")
    /\ UNCHANGED <<local, registryVars, page, asked, byHand, faults, given, entered, reached, raced>>

NewConfig(t) == IF Job(t).op = "register" THEN held[t] \union {Job(t).id} ELSE held[t] \ {Job(t).id}
RacedNow(t)  == raced \/ ~task[t].alone \/ held[t] # config

(* write_config_commit, and the catalogue is made again.                   *)
WriteConfig(t) ==
    /\ At(t, "write config")
    /\ config' = NewConfig(t) /\ committed' = NewConfig(t)
    /\ held' = [held EXCEPT ![t] = NewConfig(t)]
    /\ catalogue' = NewConfig(t)
    /\ raced' = RacedNow(t)
    /\ EndsWithWrite(t, OnRegistry)
    /\ UNCHANGED <<local, page, asked, byHand, faults, given, entered, reached>>

(* The commit fails: the file has been written and staged, and stays so.   *)
ConfigCommitFails(t) ==
    /\ At(t, "write config") /\ faults < MaxFaults
    /\ config' = NewConfig(t)
    /\ faults' = faults + 1 /\ raced' = TRUE
    /\ EndsWithWrite(t, OnRegistry)
    /\ UNCHANGED <<local, committed, held, catalogue, page, asked, byHand, given, entered, reached>>

(* A process that stays reads the configuration again (reindex).           *)
Reload(t) ==
    /\ t \in Lasting /\ task[t] = Nil /\ held[t] # config
    /\ held' = [held EXCEPT ![t] = config]
    /\ catalogue' = config
    /\ UNCHANGED <<local, config, committed, page, task, asked, byHand, faults, given, entered,
                   reached, raced>>

-----------------------------------------------------------------------------
(* morse_import: the names that are taken, the page, and one commit.       *)
TakenNames(t) ==
    /\ At(t, "import")
    /\ GoesWith(t, "import page", [taken |-> {page[i].name : i \in DOMAIN page}, page |-> <<>>])
    /\ UNCHANGED <<local, registryVars, page, asked, byHand, faults, given, entered, reached, raced>>

ReadPage(t) ==
    /\ At(t, "import page")
    /\ IF Job(t).spec \notin held[t] THEN Ends(t)
       ELSE GoesWith(t, "import commit", [task[t].read EXCEPT !.page = page])
    /\ UNCHANGED <<local, registryVars, page, asked, byHand, faults, given, entered, reached, raced>>

(* The name, or the name and the first number from 2 that is free.         *)
FreeName(taken) ==
    CHOOSE n \in 1..Cardinality(taken) + 1 : n \notin taken /\ \A k \in 1..n - 1 : k \in taken
ImportCommit(t) ==
    /\ At(t, "import commit")
    /\ page' = Append(task[t].read.page, [name |-> FreeName(task[t].read.taken), spec |-> Job(t).spec])
    /\ committed' = config
    /\ raced' = RacedNow(t)
    /\ EndsWithWrite(t, OnRegistry)
    /\ UNCHANGED <<local, config, held, catalogue, asked, byHand, faults, given, entered, reached>>

-----------------------------------------------------------------------------
(* morse_send: where the document or the environment says, with the values *)
(* of the environment, if the file it sends is at HEAD and, read last, the *)
(* host is allowed.                                                        *)
target(t, spec, env) ==
    LET own == IF env = Nil THEN NewEnv ELSE OrNew(morse_local(t, env).envs[env])
    IN  [base |-> IF own.server # Nil THEN own.server ELSE Serves[spec], vars |-> own.vars]

ReadTarget(t) ==
    /\ At(t, "send")
    /\ IF \/ Job(t).spec \notin held[t] \/ Job(t).spec \in Unusable
          \/ target(t, Job(t).spec, Job(t).env).base = Nil
          \/ Job(t).file \notin HeadFiles \union {Nil}
       THEN Ends(t) ELSE GoesWith(t, "send allowed", target(t, Job(t).spec, Job(t).env))
    /\ UNCHANGED <<local, registryVars, page, asked, byHand, faults, given, entered, reached, raced>>

Send(t) ==
    /\ At(t, "send allowed")
    /\ reached' = IF task[t].read.base \in morse_local(t, Job(t).env).allow
                  THEN reached \union {task[t].read.base} ELSE reached
    /\ Ends(t)
    /\ UNCHANGED <<local, registryVars, page, asked, byHand, faults, given, entered, raced>>

-----------------------------------------------------------------------------
WorkbenchInit ==
    /\ local = [envs |-> [e \in Environ |-> Nil], allow |-> {}]
    /\ config \in SUBSET SpecId /\ committed = config /\ catalogue = config
    /\ held = [t \in Tool |-> config]
    /\ page = <<>> /\ task = [t \in Tool |-> Nil]
    /\ asked = 0 /\ byHand = 0 /\ faults = 0
    /\ given = {} /\ entered = {} /\ reached = {} /\ raced = FALSE

ToolStep(t) ==
    \/ Begin(t) \/ ReadLocal(t) \/ WriteLocal(t) \/ ImportEnv(t)
    \/ CheckSpec(t) \/ WriteConfig(t) \/ ConfigCommitFails(t) \/ Reload(t)
    \/ TakenNames(t) \/ ReadPage(t) \/ ImportCommit(t) \/ ReadTarget(t) \/ Send(t)
WorkbenchNext == (\E t \in Tool : ToolStep(t)) \/ (\E host \in Host : EditByHand(host))
WorkbenchSpec == WorkbenchInit /\ [][WorkbenchNext]_workbenchVars

-----------------------------------------------------------------------------
(* A host is trusted because a person allowed it, in the file or in the    *)
(* pipeline, and for nothing a page does; and only such a host is reached. *)
TrustIsGiven ==
    /\ local.allow \subseteq given
    /\ reached \subseteq given \union UNION {Pipeline[t].allow : t \in Tool}

(* The values of a pipeline never get into the file.                       *)
PipelineStaysOut ==
    \A e \in Environ : local.envs[e] # Nil => local.envs[e].vars \subseteq entered

(* A write that nobody crossed changes the environments it names, or the   *)
(* hosts by the one it allows, and nothing else of the file.               *)
WritesItsOwn ==
    \A t \in Tool : At(t, "write local") /\ task[t].alone =>
        IF Job(t).op = "allow" THEN Written(t) = allow(local, Job(t).host)
        ELSE /\ Written(t).allow = local.allow
             /\ \A e \in Environ \ Touched(Job(t).edit) : Written(t).envs[e] = local.envs[e]

(* While every write rested on what was so: a scenario stands on a spec    *)
(* that is registered, its name is its own, and HEAD and the catalogue     *)
(* hold what the configuration says.                                       *)
RegistryIsSound ==
    ~raced =>
        /\ \A i \in DOMAIN page : page[i].spec \in config
        /\ \A i, j \in DOMAIN page : page[i].name = page[j].name => i = j
        /\ committed = config /\ catalogue = config

WorkbenchIsSafe == TrustIsGiven /\ PipelineStaysOut /\ WritesItsOwn /\ RegistryIsSound
=============================================================================
