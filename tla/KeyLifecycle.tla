----------------------------- MODULE KeyLifecycle -----------------------------
(***************************************************************************)
(* The master key: where it comes from, who writes it to the configuration *)
(* file, and under which key the processes of one installation seal file   *)
(* keys.                                                                   *)
(*                                                                         *)
(* A key is a number; Unset stands for "" and for the placeholder of the   *)
(* example files.  Of the configuration only the key is kept.  os.WriteFile*)
(* truncates and then writes: two steps here.                              *)
(***************************************************************************)
EXTENDS Integers, FiniteSets

CONSTANTS MaxKeys,  \* bound: keys ever drawn
          Faults    \* what may happen beside orderly use, see FaultKinds

\* "rekey": a user posts another key; "overlap": set-token runs beside the
\* server; "crash": a process is killed while it saves; "readonly": the file
\* cannot be written; "noline": the file has no master_key line;
\* "placeholder": a user posts the key of the example files although the
\* installation has a key.
FaultKinds == {"rekey", "overlap", "crash", "readonly", "noline", "placeholder"}

ASSUME KeyAssumption == MaxKeys \in Nat /\ MaxKeys >= 2
ASSUME FaultAssumption == Faults \subseteq FaultKinds

Unset == 0
NoLine == -1   \* a file without a master_key line; an empty file is one
Missing == -2  \* no file
Keys == 1..MaxKeys
Jobs == {"start", "api", "cli"}

VARIABLES
    faults,    \* the faults of this installation
    autoInit,  \* server --init
    env,       \* MASTER_KEY in the environment of every process
    file,      \* the key in the configuration file
    server,    \* is it up, and with which key (Unset: uninitialized mode)
    mount,     \* the key of the mount process; Unset: no such process
    job,       \* who is changing the file: server start, POST config, set-token
    sealed,    \* keys that some file key in the metadata is sealed under
    nextKey    \* keys below it have been drawn

vars == <<faults, autoInit, env, file, server, mount, job, sealed, nextKey>>
site == <<faults, autoInit, env>>

\* "blank": configuration loaded, POST asks for a blank key; "generate": a key
\* is drawn; "rewrite", "rewriting": its line is replaced; "save", "saving":
\* the whole configuration is written; the -ing steps have truncated.
Idle == [pc |-> "idle", key |-> Unset, found |-> FALSE]
Job == [pc : {"idle", "blank", "generate", "rewrite", "rewriting", "save", "saving"},
        key : Keys \cup {Unset}, found : BOOLEAN]
Down == [up |-> FALSE, key |-> Unset]

TypeOK ==
    /\ faults \subseteq Faults /\ autoInit \in BOOLEAN
    /\ env \in Keys \cup {Unset} /\ file \in Keys \cup {Unset, NoLine, Missing}
    /\ server \in [up : BOOLEAN, key : Keys \cup {Unset}]
    /\ ~server.up => server = Down
    /\ mount \in Keys \cup {Unset}
    /\ job \in [Jobs -> Job] /\ job["start"].pc \notin {"blank", "save", "saving"}
    /\ job["start"].pc # "idle" => ~server.up
    /\ job["api"].pc # "idle" => server.up
    /\ job["cli"].pc \in {"idle", "save", "saving"}
    /\ sealed \subseteq Keys /\ nextKey \in 3..(MaxKeys + 1)

\* Installed with a file as shipped (Unset), one that holds a key, or none.
Init ==
    /\ faults \in {{}, Faults} \cup {{f} : f \in Faults}
    /\ autoInit \in BOOLEAN /\ env \in {Unset, 1}
    /\ file \in {Missing, Unset, 2} \cup (IF "noline" \in faults THEN {NoLine} ELSE {})
    /\ server = Down /\ mount = Unset /\ job = [w \in Jobs |-> Idle]
    /\ sealed = {} /\ nextKey = 3

-----------------------------------------------------------------------------
\* LoadConfig: the environment wins, a missing file is an empty configuration.
LoadKey == IF env # Unset THEN env ELSE IF file \in Keys THEN file ELSE Unset

At(w, label) == job[w].pc = label
Goto(w, label) == job' = [job EXCEPT ![w].pc = label]
Begins(w, label, k) == job' = [job EXCEPT ![w] = [pc |-> label, key |-> k, found |-> FALSE]]
Ends(w) == job' = [job EXCEPT ![w] = Idle]

\* generateAndSaveMasterKey draws a key.
Generates(w) ==
    /\ nextKey <= MaxKeys /\ nextKey' = nextKey + 1
    /\ Begins(w, "generate", nextKey)

-----------------------------------------------------------------------------
(* Server start *)

MayStart == /\ ~server.up /\ At("start", "idle")
            /\ "overlap" \in faults \/ At("cli", "idle")

\* A key, or uninitialized mode.
Start ==
    /\ LoadKey # Unset \/ ~autoInit
    /\ MayStart
    /\ server' = [up |-> TRUE, key |-> LoadKey]
    /\ UNCHANGED <<site, file, mount, job, sealed, nextKey>>

StartGenerates ==
    /\ MayStart /\ LoadKey = Unset /\ autoInit
    /\ Generates("start")
    /\ UNCHANGED <<site, file, server, mount, sealed>>

\* The process ends or is killed; a POST under way is gone.
StopForgetting ==
    /\ server.up
    /\ server' = [server EXCEPT !.up = FALSE]
    /\ UNCHANGED <<site, file, mount, job, sealed, nextKey>>
Stop ==
    /\ server.up \/ ~At("start", "idle")
    /\ "crash" \in faults \/ (At("start", "idle") /\ At("api", "idle"))
    /\ server' = Down
    /\ job' = [job EXCEPT !["start"] = Idle, !["api"] = Idle]
    /\ UNCHANGED <<site, file, mount, sealed, nextKey>>

-----------------------------------------------------------------------------
(* POST config; h.mu admits one at a time *)

CanPost == server.up /\ At("api", "idle")
SaveOrGenerate(k) == IF k = Unset THEN Generates("api")
                     ELSE Begins("api", "save", k) /\ UNCHANGED nextKey

\* No key in the request, or the mask that GET shows instead of it.
PostUnmasked ==
    /\ CanPost
    /\ SaveOrGenerate(Unset)
    /\ UNCHANGED <<site, file, server, mount, sealed>>
Post ==
    /\ CanPost
    /\ SaveOrGenerate(LoadKey)
    /\ UNCHANGED <<site, file, server, mount, sealed>>

\* A blank key; IsInitialized loads the file again.
PostBlank ==
    /\ CanPost
    /\ Begins("api", "blank", LoadKey)
    /\ UNCHANGED <<site, file, server, mount, sealed, nextKey>>

BlankDecides ==
    /\ At("api", "blank")
    /\ SaveOrGenerate(IF LoadKey = Unset THEN Unset ELSE job["api"].key)
    /\ UNCHANGED <<site, file, server, mount, sealed>>

\* The placeholder: unlike a blank key it is taken whether a key is known or
\* not, and replaced by a new one.
PostPlaceholder ==
    /\ CanPost
    /\ "placeholder" \in faults \/ LoadKey = Unset
    /\ SaveOrGenerate(Unset)
    /\ UNCHANGED <<site, file, server, mount, sealed>>

\* A key of the user's own.
PostKey ==
    /\ CanPost /\ nextKey <= MaxKeys
    /\ "rekey" \in faults \/ LoadKey = Unset
    /\ Begins("api", "save", nextKey) /\ nextKey' = nextKey + 1
    /\ UNCHANGED <<site, file, server, mount, sealed>>

-----------------------------------------------------------------------------
\* config set-token: without a file, the default configuration.
SetTokenDefaults ==
    /\ At("cli", "idle")
    /\ "overlap" \in faults \/ (~server.up /\ At("start", "idle"))
    /\ Begins("cli", "save", Unset)
    /\ UNCHANGED <<site, file, server, mount, sealed, nextKey>>
SetToken ==
    /\ At("cli", "idle")
    /\ "overlap" \in faults \/ (~server.up /\ At("start", "idle"))
    /\ Begins("cli", "save", IF file = Missing THEN Unset ELSE LoadKey)
    /\ UNCHANGED <<site, file, server, mount, sealed, nextKey>>

SetTokenKilled ==
    /\ "crash" \in faults /\ ~At("cli", "idle")
    /\ Ends("cli")
    /\ UNCHANGED <<site, file, server, mount, sealed, nextKey>>

-----------------------------------------------------------------------------
(* generateAndSaveMasterKey and SaveConfig write the file *)

ReadsFile(w) ==
    /\ At(w, "generate") /\ file # Missing
    /\ job' = [job EXCEPT ![w].pc = "rewrite", ![w].found = file # NoLine]
    /\ UNCHANGED <<site, file, server, mount, sealed, nextKey>>

Truncates(w) ==
    /\ \/ At(w, "rewrite") /\ Goto(w, "rewriting")
       \/ At(w, "save") /\ Goto(w, "saving")
    /\ file' = NoLine
    /\ UNCHANGED <<site, server, mount, sealed, nextKey>>

\* The key goes to its line if there is one; then the server comes up with
\* it, or HandleConfig saves the whole configuration.
Rewrites(w) ==
    /\ At(w, "rewriting")
    /\ file' = IF job[w].found THEN job[w].key ELSE NoLine
    /\ IF w = "start" THEN /\ server' = [up |-> TRUE, key |-> job[w].key]
                           /\ Ends(w)
                      ELSE Goto(w, "save") /\ UNCHANGED server
    /\ UNCHANGED <<site, mount, sealed, nextKey>>

Saves(w) ==
    /\ At(w, "saving")
    /\ file' = job[w].key
    /\ Ends(w)
    /\ UNCHANGED <<site, server, mount, sealed, nextKey>>

\* An unreadable or unwritable file: log.Fatalf, or an answer of 500.
FailsUnnoticed(w) ==
    /\ At(w, "rewrite") /\ "readonly" \in faults /\ w = "start"
    /\ server' = [up |-> TRUE, key |-> job[w].key]
    /\ Ends(w)
    /\ UNCHANGED <<site, file, mount, sealed, nextKey>>
Fails(w) ==
    /\ \/ At(w, "generate") /\ file = Missing
       \/ job[w].pc \in {"rewrite", "save"} /\ "readonly" \in faults
    /\ Ends(w)
    /\ UNCHANGED <<site, file, server, mount, sealed, nextKey>>

-----------------------------------------------------------------------------
(* Users of the key *)

\* handleMount refuses to run without a key and keeps the one it has read.
MountStarts ==
    /\ mount = Unset /\ LoadKey # Unset
    /\ mount' = LoadKey
    /\ UNCHANGED <<site, file, server, job, sealed, nextKey>>

MountEnds ==
    /\ mount # Unset
    /\ mount' = Unset
    /\ UNCHANGED <<site, file, server, job, sealed, nextKey>>

InUse == {server.key, mount} \ {Unset}

\* A PUT over WebDAV, a write through the mount.
Seals ==
    /\ \E k \in InUse : sealed' = sealed \cup {k}
    /\ UNCHANGED <<site, file, server, mount, job, nextKey>>

\* encrypt and import, as commands or tools, load the key anew.
ToolSeals ==
    /\ LoadKey # Unset
    /\ sealed' = sealed \cup {LoadKey}
    /\ UNCHANGED <<site, file, server, mount, job, nextKey>>

-----------------------------------------------------------------------------
Next ==
    \/ Start \/ StartGenerates \/ Stop
    \/ Post \/ PostBlank \/ BlankDecides \/ PostPlaceholder \/ PostKey
    \/ SetToken \/ SetTokenKilled
    \/ \E w \in Jobs : ReadsFile(w) \/ Truncates(w) \/ Rewrites(w) \/ Saves(w) \/ Fails(w)
    \/ MountStarts \/ MountEnds \/ Seals \/ ToolSeals

Spec == Init /\ [][Next]_vars

-----------------------------------------------------------------------------
\* Orderly use, to which the properties are limited: nobody posts another key
\* or, over an existing one, the placeholder; set-token keeps to the times
\* when the server is down; no save is cut short and the file has a line for
\* the key.  Outside these bounds the code does lose the key.  A file that
\* cannot be written is not excepted.
Orderly == faults \subseteq {"readonly"}

\* However starts, POSTs, set-token, mounts and tools follow each other: all
\* metadata is sealed under one key, and it is the key of every process.
OneKey == Orderly => Cardinality(sealed \cup InUse) <= 1

\* No key that something is sealed under or a process runs with gets lost: it
\* is in the environment, in the file, or about to be written there.
Pending(k) == \E w \in Jobs : job[w].key = k /\ job[w].pc = "saving"
KeyInUseKept ==
    Orderly => \A k \in sealed \cup InUse : k \in {env, file} \/ Pending(k)

\* A server that comes up where something has been sealed can open it: it
\* neither draws a new key nor falls back to the uninitialized mode.
ServesWhatItHolds ==
    [][Orderly /\ ~server.up /\ server'.up /\ sealed # {} =>
           server'.key \in sealed]_vars
=============================================================================
