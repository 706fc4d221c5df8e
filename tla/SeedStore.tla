------------------------------ MODULE SeedStore -----------------------------
(***************************************************************************)
(* The seed file ~/.ruskkserv-frequency.json and the processes that use it *)
(* (src/frequency.rs, src/main.rs): commands (`import-user-dict` from an   *)
(* hourly launchd job, `init-seed` by hand) that rewrite it, the server    *)
(* that loads it at start and on SIGHUP, and the user who edits it.        *)
(* Nothing locks the file, and fs::write first truncates it.               *)
(*                                                                         *)
(* A table is a set of entries; scores, which only ever grow, are left     *)
(* out.  An entry is raw or an alias: the prefixes expand_aliases adds to  *)
(* tables in memory, which must not reach the file.                        *)
(***************************************************************************)
EXTENDS Naturals

CONSTANTS Commands, \* command processes that may run at once
          Kinds,    \* what they may be, see AllKinds
          Mishaps   \* what may go wrong: "crash", "typo", "edit under way"

\* import-user-dict, the same with --send-reload by hand or by launchd, init-seed,
\* init-seed --force.  What launchd runs is a copy under another process name.
AllKinds == {"import", "import reload", "hourly import", "init", "force"}
Senders  == {"import reload", "hourly import"}
Imports  == {"import"} \cup Senders

ASSUME SeedAssumption == /\ Kinds \subseteq AllKinds
                         /\ Mishaps \subseteq {"crash", "typo", "edit under way"}

VARIABLES
  file,      \* the seed file
  pc,        \* how far each command is
  kind,      \* what each command is
  predictor, \* each command's tables in memory
  server,    \* "down", "starting", "loaded", "up" (SIGHUP handler installed)
  serving,   \* the server's tables in memory
  hangup,    \* a SIGHUP is pending at the server
  noted,     \* history: the user has written an entry, and asked for no --force
  announced  \* history: an import has sent its SIGHUP, and no command that sends
             \* none has rewritten the file since

storeVars  == <<file, noted>>
cmdVars    == <<pc, kind, predictor>>
serverVars == <<server, serving, hangup>>
vars       == <<storeVars, cmdVars, serverVars, announced>>

Raw(names) == [of : names, alias : {FALSE}]

Entries == [of : {"hand", "dict", "preset"}, alias : BOOLEAN]
Tables  == [frequencies : SUBSET Entries, context_frequencies : SUBSET Entries]

expand_aliases(t) ==
  LET WithAliases(entries) == entries \cup [of : {e.of : e \in entries}, alias : {TRUE}]
  IN [frequencies |-> WithAliases(t.frequencies),
      context_frequencies |-> WithAliases(t.context_frequencies)]

\* What the server ranks by has its aliases, whichever way it came there.
Expanded == {t \in Tables : expand_aliases(t) = t}

NoTables == [frequencies |-> {}, context_frequencies |-> {}]
Preset   == [frequencies |-> {}, context_frequencies |-> Raw({"preset"})]

\* "unreadable": empty, cut short or mistyped; serde_json refuses it.
Absent        == [kind |-> "absent", tables |-> NoTables]
Unreadable(t) == [kind |-> "unreadable", tables |-> t]
Seed(t)       == [kind |-> "seed", tables |-> t]

TypeOK ==
  /\ file.kind \in {"absent", "unreadable", "seed"} /\ file.tables \in Tables
  /\ pc \in [Commands -> {"idle", "loaded", "merged", "writing", "saved", "killed"}]
  /\ kind \in [Commands -> AllKinds]
  /\ predictor \in [Commands -> Tables]
  /\ server \in {"down", "starting", "loaded", "up"}
  /\ serving \in Expanded
  /\ hangup \in BOOLEAN /\ noted \in BOOLEAN /\ announced \in BOOLEAN
  /\ server = "down" => serving = NoTables /\ ~hangup

Init ==
  /\ file = Absent
  /\ pc = [c \in Commands |-> "idle"]
  /\ kind \in [Commands -> Kinds]
  /\ predictor = [c \in Commands |-> NoTables]
  /\ server = "down"
  /\ serving = NoTables
  /\ hangup = FALSE
  /\ noted = FALSE
  /\ announced = FALSE

-----------------------------------------------------------------------------
(* FrequencyPredictor                                                      *)

\* Mutant: what was served is given up before the file is known to be good.
load_ClearsFirst(t) ==
  CASE file.kind = "absent" -> t
    [] file.kind = "unreadable" -> NoTables
    [] file.kind = "seed" -> expand_aliases(file.tables)

\* An absent file is no error, an unreadable one is: both leave t as it was.
load(t) == IF file.kind = "seed" THEN expand_aliases(file.tables) ELSE t

\* Mutant: the aliases expanded at start are what is saved.
reload_raw_if_exists_Never(t) == t

reload_raw_if_exists(t) == IF file.kind = "seed" THEN file.tables ELSE t

merge_default_presets_raw(t) ==
  [t EXCEPT !.context_frequencies = @ \cup Preset.context_frequencies]

\* Mutant: the presets are merged as for a file, without their aliases.
ensure_default_context_presets_Raw(t) ==
  IF t.context_frequencies = {} THEN merge_default_presets_raw(t) ELSE t

\* Mutant: the server trusts the file to have contexts.
ensure_default_context_presets_Never(t) == t

ensure_default_context_presets(t) ==
  IF t.context_frequencies = {} THEN expand_aliases(merge_default_presets_raw(t)) ELSE t

\* Mutant: init-seed overwrites without being asked to.
Merged_InitForces(what, t) ==
  IF what \in Imports THEN [reload_raw_if_exists(t) EXCEPT !.frequencies = @ \cup Raw({"dict"})]
                      ELSE Preset

\* What a command saves: init_seed(force), init_seed, import_from_skk_dict.
Merged(what, t) ==
  CASE what = "force"  -> Preset
    [] what = "init"   -> merge_default_presets_raw(reload_raw_if_exists(t))
    [] what \in Imports ->
         LET imported == [reload_raw_if_exists(t) EXCEPT !.frequencies = @ \cup Raw({"dict"})]
         IN IF imported.context_frequencies = {}
            THEN merge_default_presets_raw(imported) ELSE imported

-----------------------------------------------------------------------------
(* A command, step by step                                                 *)

Running(c) == pc[c] \notin {"idle", "killed"}

Goto(c, where) == pc' = [pc EXCEPT ![c] = where]

\* FrequencyPredictor::new
New(c) == /\ ~Running(c)
          /\ \E what \in Kinds : kind' = [kind EXCEPT ![c] = what]
          /\ predictor' = [predictor EXCEPT ![c] = load(NoTables)]
          /\ Goto(c, "loaded")
          /\ UNCHANGED <<storeVars, serverVars, announced>>

Merge(c) == /\ pc[c] = "loaded"
            /\ predictor' = [predictor EXCEPT ![c] = Merged(kind[c], @)]
            /\ Goto(c, "merged")
            /\ UNCHANGED <<storeVars, kind, serverVars, announced>>

\* save: fs::write opens with O_TRUNC, then writes.
Truncate(c) == /\ pc[c] = "merged"
               /\ file' = Unreadable(NoTables)
               /\ noted' = (noted /\ kind[c] # "force")
               /\ announced' = (announced /\ kind[c] \in Senders)
               /\ Goto(c, "writing")
               /\ UNCHANGED <<kind, predictor, serverVars>>

Write(c) == /\ pc[c] = "writing"
            /\ file' = Seed(predictor[c])
            /\ Goto(c, "saved")
            /\ UNCHANGED <<noted, kind, predictor, serverVars, announced>>

\* The dictionary cannot be read, the seed file cannot be opened.
Fail(c) == /\ (pc[c] = "loaded" /\ kind[c] \in Imports) \/ pc[c] = "merged"
           /\ Goto(c, "idle")
           /\ predictor' = [predictor EXCEPT ![c] = NoTables]
           /\ UNCHANGED <<storeVars, kind, serverVars, announced>>

Exit(c) == /\ pc[c] = "saved"
           /\ kind[c] \notin Senders
           /\ Goto(c, "idle")
           /\ predictor' = [predictor EXCEPT ![c] = NoTables]
           /\ UNCHANGED <<storeVars, kind, serverVars, announced>>

\* Mutant: the signal is sent before the file is saved.
Signal_BeforeSave(c) ==
  /\ pc[c] = "merged"
  /\ kind[c] \in Senders
  /\ hangup' = (server = "up")
  /\ announced' = TRUE
  /\ UNCHANGED <<storeVars, cmdVars, server, serving>>

\* send_sighup_to_ruskkserv: `pkill -HUP -x ruskkserv` reaches every process of
\* that name but its own ancestors; one with no handler installed dies of it.
Signal(c) ==
  /\ pc[c] = "saved"
  /\ kind[c] \in Senders
  /\ pc' = [d \in Commands |-> CASE d = c -> "idle"
                                 [] d # c /\ Running(d) /\ kind[d] # "hourly import" -> "killed"
                                 [] OTHER -> pc[d]]
  /\ predictor' = [d \in Commands |-> IF pc'[d] \in {"idle", "killed"} THEN NoTables ELSE predictor[d]]
  /\ server' = IF server \in {"starting", "loaded"} THEN "down" ELSE server
  /\ serving' = IF server = "up" THEN serving ELSE NoTables
  /\ hangup' = (server = "up")
  /\ announced' = TRUE
  /\ UNCHANGED <<storeVars, kind>>

\* Power cut, kill, or a full disk in the middle of fs::write.
Crash(c) == /\ "crash" \in Mishaps
            /\ Running(c)
            /\ Goto(c, "killed")
            /\ predictor' = [predictor EXCEPT ![c] = NoTables]
            /\ UNCHANGED <<storeVars, kind, serverVars, announced>>

-----------------------------------------------------------------------------
(* The server                                                              *)

Spawn == /\ server = "down"
         /\ server' = "starting"
         /\ UNCHANGED <<storeVars, cmdVars, serving, hangup, announced>>

Load == /\ server = "starting"
        /\ server' = "loaded"
        /\ serving' = ensure_default_context_presets(load(NoTables))
        /\ UNCHANGED <<storeVars, cmdVars, hangup, announced>>

InstallHandler == /\ server = "loaded"
                  /\ server' = "up"
                  /\ UNCHANGED <<storeVars, cmdVars, serving, hangup, announced>>

\* One turn of reload_on_sighup; signals that arrive meanwhile are one signal.
Reload == /\ server = "up"
          /\ hangup
          /\ hangup' = FALSE
          /\ serving' = ensure_default_context_presets(load(serving))
          /\ UNCHANGED <<storeVars, cmdVars, server, announced>>

\* SIGTERM, SIGINT or a crash; launchd starts the server again.
Stop == /\ server # "down"
        /\ server' = "down"
        /\ serving' = NoTables
        /\ hangup' = FALSE
        /\ UNCHANGED <<storeVars, cmdVars, announced>>

-----------------------------------------------------------------------------
(* The user (external)                                                     *)

\* Adds an entry, in a table with contexts or without; a typo makes the whole
\* file unreadable.
Edit ==
  /\ file.kind # "unreadable"
  /\ "edit under way" \in Mishaps \/ \A c \in Commands : ~Running(c)
  /\ LET edited == [file.tables EXCEPT !.frequencies = @ \cup Raw({"hand"})]
     IN \/ file' = Seed(edited)
        \/ "typo" \in Mishaps /\ file' = Unreadable(edited)
  /\ noted' = TRUE
  /\ UNCHANGED <<cmdVars, serverVars, announced>>

\* A SIGHUP by hand once the server is up.
Hangup == /\ server = "up"
          /\ hangup' = TRUE
          /\ UNCHANGED <<storeVars, cmdVars, server, serving, announced>>

-----------------------------------------------------------------------------

Command(c) == New(c) \/ Merge(c) \/ Truncate(c) \/ Write(c) \/ Fail(c) \/ Exit(c) \/ Signal(c) \/ Crash(c)

Server == Spawn \/ Load \/ InstallHandler \/ Reload \/ Stop

Next == (\E c \in Commands : Command(c)) \/ Server \/ Edit \/ Hangup

Spec == Init /\ [][Next]_vars

\* launchd restarts the server (KeepAlive), its tasks are polled, and a command
\* once begun runs; nobody is obliged to begin one, nor to stop the server.
\* Imports are an hour apart: not every reload can meet one in mid-write.
FairSpec == /\ Spec
            /\ WF_vars(Spawn) /\ WF_vars(Load) /\ WF_vars(InstallHandler) /\ SF_vars(Reload /\ file.kind = "seed")
            /\ \A c \in Commands : WF_vars(Write(c)) /\ WF_vars(Signal(c))

-----------------------------------------------------------------------------

\* reload_raw_if_exists: the aliases a command expands in memory never reach the
\* file.  So it is for one command at a time; another one, at the wrong moment,
\* has the file truncated between New and the raw reload, which then keeps the
\* expanded tables, and they are saved.
NoAliasOnDisk ==
  \A e \in file.tables.frequencies \cup file.tables.context_frequencies : ~e.alias

\* What the user has written in the file stays there unless --force is asked
\* for: the merging commands keep it (init_seed, import_from_skk_dict).
HandEditsSurvive ==
  noted /\ (\A c \in Commands : pc[c] # "writing")
  => \E e \in file.tables.frequencies : e.of = "hand"

\* The server never ranks without contexts, whatever it finds on disk when it
\* starts or is told to reload (ensure_default_context_presets).
ServerHasContext == server \in {"loaded", "up"} => serving.context_frequencies # {}

\* A reload that finds the file truncated, half-written or mistyped leaves the
\* running server with the tables it had (FrequencyPredictor::load).
ReloadIsAllOrNothing ==
  [][server = "up" /\ server' = "up" /\ serving' # serving => file.kind = "seed"]_vars

\* Once an import has sent its signal, a running server does not stay without
\* the imported entries, though its reload or its restart may meet the next
\* import in the middle of its write; unless a command that sends no signal
\* rewrites the file, which a restart may then meet half-written
\* (send_sighup_to_ruskkserv, reload_on_sighup).
ImportReachesServer ==
  announced /\ server = "up" ~>
    ~announced \/ server # "up" \/ \E e \in serving.frequencies : e.of = "dict"
=============================================================================
