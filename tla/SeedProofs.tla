----------------------------- MODULE SeedProofs -----------------------------
(***************************************************************************)
(* Proofs about SeedStore.tla.  What concerns the server holds for any     *)
(* number of commands and whatever goes wrong; what concerns the file only *)
(* for one command at a time, since nothing locks the file.                *)
(***************************************************************************)
EXTENDS SeedStore, TLAPS

HasAlias(t) == \E e \in t.frequencies \cup t.context_frequencies : e.alias

HasHand(t) == \E e \in t.frequencies : e.of = "hand"

-----------------------------------------------------------------------------
(* Tables                                                                  *)

LEMMA Constants ==
  /\ NoTables \in Tables /\ NoTables \in Expanded /\ Preset \in Tables /\ Preset.context_frequencies # {}
  /\ ~HasAlias(NoTables) /\ ~HasAlias(Preset)
  /\ \A names : \A e \in Raw(names) : e.of \in names /\ ~e.alias
  /\ \A names \in SUBSET {"hand", "dict", "preset"} : Raw(names) \in SUBSET Entries
<1>1. Raw({"preset"}) # {}
  <2>1. [of |-> "preset", alias |-> FALSE] \in Raw({"preset"})
    BY DEF Raw
  <2> QED BY <2>1
<1>2. NoTables \in Tables /\ Preset \in Tables
  BY DEF NoTables, Preset, Tables, Entries, Raw
<1>7. expand_aliases(NoTables) = NoTables
  <2>1. [of : {e.of : e \in {}}, alias : {TRUE}] = {}
    OBVIOUS
  <2> QED BY <2>1 DEF expand_aliases, NoTables
<1>3. \A names : \A e \in Raw(names) : e.of \in names /\ ~e.alias
  BY DEF Raw
<1>4. ~HasAlias(NoTables) /\ ~HasAlias(Preset)
  BY <1>3 DEF HasAlias, NoTables, Preset
<1>5. Preset.context_frequencies # {}
  BY <1>1 DEF Preset
<1>6. \A names \in SUBSET {"hand", "dict", "preset"} : Raw(names) \in SUBSET Entries
  BY DEF Raw, Entries
<1> QED BY <1>2, <1>3, <1>4, <1>5, <1>6, <1>7 DEF Expanded

\* Aliases are added, nothing is taken away, and aliases have no further aliases.
LEMMA ExpandAliases ==
  ASSUME NEW t \in Tables
  PROVE  /\ expand_aliases(t) \in Expanded
         /\ t.context_frequencies \subseteq expand_aliases(t).context_frequencies
<1> DEFINE More(entries) == entries \cup [of : {e.of : e \in entries}, alias : {TRUE}]
<1>1. \A entries \in SUBSET Entries : More(entries) \in SUBSET Entries
  BY DEF Entries
<1>2. expand_aliases(t) = [frequencies |-> More(t.frequencies),
                           context_frequencies |-> More(t.context_frequencies)]
  BY DEF expand_aliases
<1>3. t.context_frequencies \subseteq More(t.context_frequencies)
  OBVIOUS
<1>5. \A entries \in SUBSET Entries : More(More(entries)) = More(entries)
  <2> SUFFICES ASSUME NEW entries \in SUBSET Entries, NEW e \in More(More(entries))
               PROVE  e \in More(entries)
    OBVIOUS
  <2>1. CASE e \in More(entries)
    BY <2>1
  <2>2. CASE e \in [of : {f.of : f \in More(entries)}, alias : {TRUE}]
    <3>1. PICK f \in More(entries) : e = [of |-> f.of, alias |-> TRUE]
      BY <2>2
    <3>2. f.of \in {g.of : g \in entries}
      BY <3>1
    <3> QED BY <3>1, <3>2
  <2> QED BY <2>1, <2>2
<1>4. t.frequencies \in SUBSET Entries /\ t.context_frequencies \in SUBSET Entries
  BY DEF Tables
<1>6. expand_aliases(expand_aliases(t)) =
        [frequencies |-> More(More(t.frequencies)),
         context_frequencies |-> More(More(t.context_frequencies))]
  BY <1>2 DEF expand_aliases
<1> HIDE DEF More
<1> QED BY <1>1, <1>2, <1>3, <1>4, <1>5, <1>6 DEF Tables, Expanded

LEMMA MergePresets ==
  ASSUME NEW t \in Tables
  PROVE  /\ merge_default_presets_raw(t) \in Tables
         /\ merge_default_presets_raw(t).frequencies = t.frequencies
         /\ merge_default_presets_raw(t).context_frequencies # {}
         /\ ~HasAlias(t) => ~HasAlias(merge_default_presets_raw(t))
<1>1. merge_default_presets_raw(t) =
        [t EXCEPT !.context_frequencies = t.context_frequencies \cup Preset.context_frequencies]
  BY DEF merge_default_presets_raw
<1> QED BY <1>1, Constants DEF Tables, HasAlias

\* The server never serves tables without contexts.
LEMMA EnsureContexts ==
  ASSUME NEW t \in Expanded
  PROVE  /\ ensure_default_context_presets(t) \in Expanded
         /\ ensure_default_context_presets(t).context_frequencies # {}
<1>1. t \in Tables
  BY DEF Expanded
<1> QED BY <1>1, MergePresets, ExpandAliases DEF ensure_default_context_presets

LEMMA LoadType ==
  ASSUME TypeOK, NEW t \in Expanded
  PROVE  load(t) \in Expanded
BY ExpandAliases DEF load, TypeOK

\* What a command saves has no aliases if what it starts from has none, and
\* without --force it has what the user wrote.
LEMMA MergedTables ==
  ASSUME TypeOK, NEW what \in AllKinds, NEW t \in Tables
  PROVE  /\ Merged(what, t) \in Tables
         /\ ~HasAlias(reload_raw_if_exists(t)) => ~HasAlias(Merged(what, t))
         /\ what # "force" /\ HasHand(reload_raw_if_exists(t)) => HasHand(Merged(what, t))
<1> DEFINE raw == reload_raw_if_exists(t)
           imported == [raw EXCEPT !.frequencies = raw.frequencies \cup Raw({"dict"})]
<1>1. raw \in Tables
  BY DEF reload_raw_if_exists, TypeOK
<1> HIDE DEF raw
<1>2. imported \in Tables /\ imported.frequencies = raw.frequencies \cup Raw({"dict"})
      /\ imported.context_frequencies = raw.context_frequencies
  <2>1. Raw({"dict"}) \in SUBSET Entries
    BY Constants
  <2> QED BY <1>1, <2>1 DEF Tables
<1>3. /\ ~HasAlias(raw) => ~HasAlias(imported)
      /\ HasHand(raw) => HasHand(imported)
  <2>1. \A e \in Raw({"dict"}) : ~e.alias
    BY Constants
  <2> HIDE DEF imported
  <2> QED BY <1>2, <2>1 DEF HasAlias, HasHand
<1>4. CASE what = "force"
  <2>1. Merged(what, t) = Preset
    BY <1>4 DEF Merged, Imports, Senders
  <2> QED BY <1>4, <2>1, Constants
<1>5. CASE what = "init"
  <2>1. Merged(what, t) = merge_default_presets_raw(raw)
    BY <1>5 DEF Merged, Imports, Senders, raw
  <2>2. HasHand(raw) => HasHand(merge_default_presets_raw(raw))
    BY <1>1, MergePresets DEF HasHand
  <2> QED BY <1>1, <2>1, <2>2, MergePresets DEF raw
<1>6. CASE what \in Imports
  <2>1. Merged(what, t) \in {imported, merge_default_presets_raw(imported)}
    <3>1. Merged(what, t) = IF imported.context_frequencies = {}
                            THEN merge_default_presets_raw(imported) ELSE imported
      BY <1>6 DEF Merged, raw, Imports, Senders
    <3> HIDE DEF imported
    <3> QED BY <3>1
  <2> HIDE DEF imported
  <2>2. HasHand(imported) => HasHand(merge_default_presets_raw(imported))
    BY <1>2, MergePresets DEF HasHand
  <2> QED BY <1>2, <1>3, <2>1, <2>2, MergePresets DEF raw
<1> QED BY <1>4, <1>5, <1>6 DEF AllKinds, Imports, Senders

-----------------------------------------------------------------------------
(* The server: any commands, any mishaps                                   *)

ServerInv == TypeOK /\ ServerHasContext

\* Steps of the user and of commands that send no signal.
LEMMA ServerElsewhere ==
  ASSUME ServerInv, UNCHANGED <<server, serving>>,
         file'.kind \in {"absent", "unreadable", "seed"}, file'.tables \in Tables,
         pc' \in [Commands -> {"idle", "loaded", "merged", "writing", "saved", "killed"}],
         kind' \in [Commands -> AllKinds], predictor' \in [Commands -> Tables],
         hangup' \in BOOLEAN, noted' \in BOOLEAN, announced' \in BOOLEAN,
         server = "down" => ~hangup'
  PROVE  ServerInv'
BY DEF ServerInv, TypeOK, ServerHasContext

LEMMA CommandInv ==
  ASSUME ServerInv, NEW c \in Commands, Command(c)
  PROVE  ServerInv'
<1> USE Constants
<1>0. TypeOK /\ file.tables \in Tables
  BY DEF ServerInv, TypeOK
<1>1. CASE New(c)
  <2>1. PICK what \in Kinds : kind' = [kind EXCEPT ![c] = what]
    BY <1>1 DEF New
  <2>2. kind' \in [Commands -> AllKinds]
    BY <1>0, <2>1, SeedAssumption DEF SeedAssumption, TypeOK
  <2>3. predictor' \in [Commands -> Tables]
    <3>1. load(NoTables) \in Tables
      BY <1>0, LoadType DEF Expanded
    <3> QED BY <1>0, <1>1, <3>1 DEF New, TypeOK
  <2>4. pc' \in [Commands -> {"idle", "loaded", "merged", "writing", "saved", "killed"}]
    BY <1>0, <1>1 DEF New, Goto, TypeOK
  <2> QED BY <1>0, <1>1, <2>2, <2>3, <2>4, ServerElsewhere
          DEF New, storeVars, serverVars, TypeOK
<1>2. CASE Merge(c)
  <2>1. predictor' \in [Commands -> Tables]
    <3>1. Merged(kind[c], predictor[c]) \in Tables
      <4>1. kind[c] \in AllKinds /\ predictor[c] \in Tables
        BY <1>0 DEF TypeOK
      <4> QED BY <1>0, <4>1, MergedTables
    <3> QED BY <1>0, <1>2, <3>1 DEF Merge, TypeOK
  <2>2. pc' \in [Commands -> {"idle", "loaded", "merged", "writing", "saved", "killed"}]
    BY <1>0, <1>2 DEF Merge, Goto, TypeOK
  <2> QED BY <1>0, <1>2, <2>1, <2>2, ServerElsewhere DEF Merge, storeVars, serverVars, TypeOK
<1>3. CASE Truncate(c)
  <2>1. file'.kind = "unreadable" /\ file'.tables \in Tables
    BY <1>3 DEF Truncate, Unreadable
  <2>2. pc' \in [Commands -> {"idle", "loaded", "merged", "writing", "saved", "killed"}]
    BY <1>0, <1>3 DEF Truncate, Goto, TypeOK
  <2>3. noted' \in BOOLEAN /\ announced' \in BOOLEAN
    BY <1>3 DEF Truncate
  <2> QED BY <1>0, <1>3, <2>1, <2>2, <2>3, ServerElsewhere DEF Truncate, serverVars, TypeOK
<1>4. CASE Write(c)
  <2>1. file'.kind = "seed" /\ file'.tables \in Tables
    BY <1>0, <1>4 DEF Write, Seed, TypeOK
  <2>2. pc' \in [Commands -> {"idle", "loaded", "merged", "writing", "saved", "killed"}]
    BY <1>0, <1>4 DEF Write, Goto, TypeOK
  <2> QED BY <1>0, <1>4, <2>1, <2>2, ServerElsewhere DEF Write, serverVars, TypeOK
<1>5. CASE Fail(c) \/ Exit(c) \/ Crash(c)
  <2>1. predictor' \in [Commands -> Tables]
    BY <1>0, <1>5 DEF Fail, Exit, Crash, TypeOK
  <2>2. pc' \in [Commands -> {"idle", "loaded", "merged", "writing", "saved", "killed"}]
    BY <1>0, <1>5 DEF Fail, Exit, Crash, Goto, TypeOK
  <2>3. UNCHANGED <<file, noted, kind, server, serving, hangup, announced>>
    BY <1>5 DEF Fail, Exit, Crash, storeVars, serverVars
  <2> QED BY <1>0, <2>1, <2>2, <2>3, ServerElsewhere DEF TypeOK
<1>6. CASE Signal(c)
  <2>1. /\ pc' \in [Commands -> {"idle", "loaded", "merged", "writing", "saved", "killed"}]
        /\ predictor' \in [Commands -> Tables]
    <3>1. pc' \in [Commands -> {"idle", "loaded", "merged", "writing", "saved", "killed"}]
      BY <1>0, <1>6 DEF Signal, TypeOK
    <3>2. predictor' = [d \in Commands |-> IF pc'[d] \in {"idle", "killed"} THEN NoTables ELSE predictor[d]]
      BY <1>6 DEF Signal
    <3> QED BY <1>0, <3>1, <3>2 DEF TypeOK
  <2>2. /\ server' = IF server \in {"starting", "loaded"} THEN "down" ELSE server
        /\ serving' = IF server = "up" THEN serving ELSE NoTables
        /\ hangup' = (server = "up") /\ announced' = TRUE /\ UNCHANGED <<file, noted, kind>>
    BY <1>6 DEF Signal, storeVars
  <2>3. TypeOK'
    BY <1>0, <2>1, <2>2 DEF TypeOK
  <2>4. ServerHasContext'
    BY <1>0, <2>2 DEF ServerInv, TypeOK, ServerHasContext
  <2> QED BY <2>3, <2>4 DEF ServerInv
<1> QED BY <1>1, <1>2, <1>3, <1>4, <1>5, <1>6 DEF Command

LEMMA ServerStepInv == ServerInv /\ Server => ServerInv'
<1> SUFFICES ASSUME ServerInv, Server
             PROVE  ServerInv'
  OBVIOUS
<1>1. TypeOK
  BY DEF ServerInv
<1>2. CASE Spawn \/ InstallHandler
  BY <1>2 DEF ServerInv, TypeOK, ServerHasContext, Spawn, InstallHandler, storeVars, cmdVars
<1>3. CASE Load
  <2>1. /\ ensure_default_context_presets(load(NoTables)) \in Expanded
        /\ ensure_default_context_presets(load(NoTables)).context_frequencies # {}
    BY <1>1, Constants, LoadType, EnsureContexts
  <2> QED BY <1>3, <2>1 DEF ServerInv, TypeOK, ServerHasContext, Load, storeVars, cmdVars
<1>4. CASE Reload
  <2>1. /\ ensure_default_context_presets(load(serving)) \in Expanded
        /\ ensure_default_context_presets(load(serving)).context_frequencies # {}
    <3>1. serving \in Expanded
      BY <1>1 DEF TypeOK
    <3> QED BY <1>1, <3>1, LoadType, EnsureContexts
  <2> QED BY <1>4, <2>1 DEF ServerInv, TypeOK, ServerHasContext, Reload, storeVars, cmdVars
<1>5. CASE Stop
  BY <1>5, Constants DEF ServerInv, TypeOK, ServerHasContext, Stop, storeVars, cmdVars
<1> QED BY <1>2, <1>3, <1>4, <1>5 DEF Server

LEMMA ServerNextInv == ServerInv /\ [Next]_vars => ServerInv'
<1> SUFFICES ASSUME ServerInv, [Next]_vars
             PROVE  ServerInv'
  OBVIOUS
<1>1. CASE Edit
  <2> DEFINE edited == [file.tables EXCEPT !.frequencies = @ \cup Raw({"hand"})]
  <2>1. edited \in Tables
    <3>1. Raw({"hand"}) \in SUBSET Entries
      BY Constants
    <3> QED BY <3>1 DEF ServerInv, TypeOK, Tables
  <2>2. /\ file' \in {Seed(edited), Unreadable(edited)} /\ noted' = TRUE
        /\ UNCHANGED <<pc, kind, predictor, server, serving, hangup, announced>>
    BY <1>1 DEF Edit, cmdVars, serverVars
  <2>3. file'.kind \in {"absent", "unreadable", "seed"} /\ file'.tables \in Tables
    BY <2>1, <2>2 DEF Seed, Unreadable
  <2> QED BY <2>2, <2>3, ServerElsewhere DEF ServerInv, TypeOK
<1>2. CASE Hangup
  BY <1>2, ServerElsewhere DEF ServerInv, TypeOK, Hangup, storeVars, cmdVars
<1>3. CASE UNCHANGED vars
  BY <1>3, ServerElsewhere DEF ServerInv, TypeOK, vars, storeVars, cmdVars, serverVars
<1> QED BY <1>1, <1>2, <1>3, CommandInv, ServerStepInv DEF Next

LEMMA ServerInvariance == Spec => []ServerInv
<1>1. ASSUME Init
      PROVE  ServerInv
  <2>1. kind \in [Commands -> AllKinds]
    BY <1>1, SeedAssumption DEF SeedAssumption, Init
  <2>2. file.kind = "absent" /\ file.tables = NoTables
    BY <1>1 DEF Init, Absent
  <2>3. TypeOK
    BY <1>1, <2>1, <2>2, Constants DEF Init, TypeOK
  <2>4. ServerHasContext
    BY <1>1 DEF Init, ServerHasContext
  <2> QED BY <2>3, <2>4 DEF ServerInv
<1> QED BY <1>1, ServerNextInv, PTL DEF Spec

\* Every table is well typed; what the server serves has its aliases, after a
\* start, a reload or a fall back on the presets; a server that is down serves
\* nothing and has no signal pending.
THEOREM TypeCorrect == Spec => []TypeOK
<1>1. ServerInv => TypeOK
  BY DEF ServerInv
<1> QED BY <1>1, ServerInvariance, PTL

\* Whatever any commands and the user do to the file, and whatever goes wrong, a
\* server that ranks has contexts (ensure_default_context_presets).
THEOREM ContextAlways == Spec => []ServerHasContext
<1>1. ServerInv => ServerHasContext
  BY DEF ServerInv
<1> QED BY <1>1, ServerInvariance, PTL

\* A reload changes what a running server serves only if the file is readable
\* (FrequencyPredictor::load).
THEOREM ReloadsAreAtomic == Spec => ReloadIsAllOrNothing
<1>1. ServerInv /\ [Next]_vars =>
        [server = "up" /\ server' = "up" /\ serving' # serving => file.kind = "seed"]_vars
  <2> SUFFICES ASSUME ServerInv, [Next]_vars, server = "up", server' = "up", serving' # serving,
                      file.kind # "seed"
               PROVE  FALSE
    OBVIOUS
  <2>1. Reload
    BY DEF Next, vars, serverVars, Command, New, Merge, Truncate, Write, Fail, Exit, Signal, Crash,
           Server, Spawn, Load, InstallHandler, Stop, Edit, Hangup
  <2>2. serving' = ensure_default_context_presets(serving)
    BY <2>1 DEF Reload, load
  <2>3. serving.context_frequencies # {}
    BY DEF ServerInv, ServerHasContext
  <2> QED BY <2>2, <2>3 DEF ensure_default_context_presets
<1> QED BY <1>1, ServerInvariance, PTL DEF Spec, ReloadIsAllOrNothing

-----------------------------------------------------------------------------
(* The file: one command at a time                                         *)

\* What the command has expanded it takes back from the file, which is there
\* whenever there was something to expand.
AliasInv(c) ==
  /\ ~HasAlias(file.tables)
  /\ pc[c] = "loaded" => file.kind = "seed" \/ predictor[c] = NoTables
  /\ pc[c] \in {"merged", "writing", "saved"} => ~HasAlias(predictor[c])

\* What the user wrote is in the file or, while that is written, in the command.
HandInv(c) ==
  noted => /\ pc[c] # "writing" => file.kind = "seed" /\ HasHand(file.tables)
           /\ pc[c] = "merged" /\ kind[c] # "force" => HasHand(predictor[c])
           /\ pc[c] = "writing" => HasHand(predictor[c])

FileInv(c) == TypeOK /\ AliasInv(c) /\ (Mishaps = {} => HandInv(c))

LEMMA FileInit ==
  ASSUME NEW c, Commands = {c}, Init
  PROVE  FileInv(c)
<1>1. TypeOK
  <2>1. kind \in [Commands -> AllKinds]
    BY SeedAssumption DEF SeedAssumption, Init
  <2> QED BY <2>1, Constants DEF Init, TypeOK, Absent
<1>2. file.tables = NoTables /\ pc[c] = "idle" /\ ~noted
  BY DEF Init, Absent
<1> QED BY <1>1, <1>2, Constants DEF FileInv, AliasInv, HandInv

LEMMA FileCommandInv ==
  ASSUME NEW c, Commands = {c}, FileInv(c), Command(c)
  PROVE  AliasInv(c)' /\ (Mishaps = {} => HandInv(c)')
<1>0. /\ TypeOK /\ c \in Commands
      /\ kind[c] \in AllKinds /\ predictor[c] \in Tables
  BY DEF FileInv, TypeOK
<1>1. CASE New(c)
  <2>1. /\ UNCHANGED <<file, noted>> /\ pc'[c] = "loaded" /\ predictor'[c] = load(NoTables)
        /\ pc[c] # "writing"
    BY <1>0, <1>1 DEF New, Goto, Running, storeVars, TypeOK
  <2>2. file.kind = "seed" \/ load(NoTables) = NoTables
    BY DEF load
  <2> QED BY <2>1, <2>2 DEF FileInv, AliasInv, HandInv
<1>2. CASE Merge(c)
  <2>1. /\ UNCHANGED <<file, noted, kind>> /\ pc[c] = "loaded" /\ pc'[c] = "merged"
        /\ predictor'[c] = Merged(kind[c], predictor[c])
    BY <1>0, <1>2 DEF Merge, Goto, storeVars, TypeOK
  <2>2. ~HasAlias(reload_raw_if_exists(predictor[c]))
    BY <2>1, Constants DEF FileInv, AliasInv, reload_raw_if_exists
  <2>3. ~HasAlias(predictor'[c])
    BY <1>0, <2>1, <2>2, MergedTables
  <2>4. ASSUME Mishaps = {}, noted, kind[c] # "force"
        PROVE  HasHand(predictor'[c])
    <3>1. reload_raw_if_exists(predictor[c]) = file.tables /\ HasHand(file.tables)
      BY <2>1, <2>4 DEF FileInv, HandInv, reload_raw_if_exists
    <3> QED BY <1>0, <2>1, <2>4, <3>1, MergedTables
  <2> QED BY <2>1, <2>3, <2>4 DEF FileInv, AliasInv, HandInv
<1>3. CASE Truncate(c)
  <2>1. /\ UNCHANGED <<kind, predictor>> /\ pc[c] = "merged" /\ pc'[c] = "writing"
        /\ file'.tables = NoTables /\ noted' = (noted /\ kind[c] # "force")
    BY <1>0, <1>3 DEF Truncate, Goto, Unreadable, TypeOK
  <2> QED BY <2>1, Constants DEF FileInv, AliasInv, HandInv
<1>4. CASE Write(c)
  <2>1. /\ UNCHANGED <<noted, kind, predictor>> /\ pc[c] = "writing" /\ pc'[c] = "saved"
        /\ file'.kind = "seed" /\ file'.tables = predictor[c]
    BY <1>0, <1>4 DEF Write, Goto, Seed, TypeOK
  <2> QED BY <2>1 DEF FileInv, AliasInv, HandInv
<1>5. CASE Fail(c) \/ Exit(c)
  <2>1. /\ UNCHANGED <<file, noted>> /\ pc[c] # "writing" /\ pc'[c] = "idle"
    BY <1>0, <1>5 DEF Fail, Exit, Goto, storeVars, TypeOK
  <2> QED BY <2>1 DEF FileInv, AliasInv, HandInv
<1>6. CASE Crash(c)
  <2>1. UNCHANGED <<file, noted>> /\ Mishaps # {} /\ pc'[c] = "killed"
    BY <1>0, <1>6 DEF Crash, Goto, storeVars, TypeOK
  <2> QED BY <2>1 DEF FileInv, AliasInv
<1>7. CASE Signal(c)
  <2>1. UNCHANGED <<file, noted>> /\ pc[c] = "saved" /\ pc'[c] = "idle"
    BY <1>0, <1>7 DEF Signal, storeVars, TypeOK
  <2> QED BY <2>1 DEF FileInv, AliasInv, HandInv
<1> QED BY <1>1, <1>2, <1>3, <1>4, <1>5, <1>6, <1>7 DEF Command

LEMMA FileNextInv ==
  ASSUME NEW c, Commands = {c}, "edit under way" \notin Mishaps, FileInv(c), ServerInv,
         [Next]_vars
  PROVE  FileInv(c)'
<1>1. TypeOK'
  BY ServerNextInv DEF ServerInv
<1>2. CASE UNCHANGED <<file, noted, pc, kind, predictor>>
  BY <1>1, <1>2 DEF FileInv, AliasInv, HandInv
<1>3. CASE Command(c)
  BY <1>1, <1>3, FileCommandInv DEF FileInv
<1>4. CASE Edit
  <2> DEFINE edited == [file.tables EXCEPT !.frequencies = file.tables.frequencies \cup Raw({"hand"})]
  <2>1. file.tables \in Tables
    BY DEF ServerInv, TypeOK
  <2>2. /\ edited.frequencies = file.tables.frequencies \cup Raw({"hand"})
        /\ edited.context_frequencies = file.tables.context_frequencies
    BY <2>1 DEF Tables
  <2>3. \A e \in Raw({"hand"}) : ~e.alias
    BY Constants
  <2>4. [of |-> "hand", alias |-> FALSE] \in Raw({"hand"})
    BY DEF Raw
  <2>5. /\ file' = Seed(edited) \/ ("typo" \in Mishaps /\ file' = Unreadable(edited))
        /\ UNCHANGED <<pc, kind, predictor>>
    BY <1>4 DEF Edit, cmdVars
  <2>6. pc[c] \in {"idle", "killed"}
    BY <1>4 DEF Edit, Running
  <2> HIDE DEF edited
  <2>7. ~HasAlias(edited) /\ HasHand(edited)
    <3>1. ~HasAlias(edited)
      BY <2>2, <2>3 DEF HasAlias, FileInv, AliasInv
    <3>2. HasHand(edited)
      <4>1. \E e \in Raw({"hand"}) : e.of = "hand"
        BY <2>4
      <4> QED BY <2>2, <4>1 DEF HasHand
    <3> QED BY <3>1, <3>2
  <2>8. file'.tables = edited /\ (Mishaps = {} => file'.kind = "seed")
    <3>1. CASE file' = Seed(edited)
      BY <3>1 DEF Seed
    <3>2. CASE "typo" \in Mishaps /\ file' = Unreadable(edited)
      BY <3>2 DEF Unreadable
    <3> QED BY <2>5, <3>1, <3>2
  <2> QED BY <1>1, <2>5, <2>6, <2>7, <2>8 DEF FileInv, AliasInv, HandInv
<1> QED
  <2>1. CASE Server \/ Hangup \/ UNCHANGED vars
    BY <1>2, <2>1 DEF Server, Spawn, Load, InstallHandler, Reload, Stop, Hangup, vars, storeVars,
                      cmdVars
  <2> QED BY <1>3, <1>4, <2>1 DEF Next

LEMMA FileInvariance ==
  ASSUME NEW c, Commands = {c}, "edit under way" \notin Mishaps
  PROVE  Spec => []FileInv(c)
<1>1. Init => FileInv(c)
  BY FileInit
<1>2. FileInv(c) /\ ServerInv /\ [Next]_vars => FileInv(c)'
  BY FileNextInv
<1> QED BY <1>1, <1>2, ServerInvariance, PTL DEF Spec

\* With one command at a time, and a user who waits for it to end, no alias ever
\* reaches the file, even if the command crashes half-way or the file was
\* mistyped before (reload_raw_if_exists).
THEOREM AliasesStayInMemory ==
  ASSUME NEW c, Commands = {c}, "edit under way" \notin Mishaps
  PROVE  Spec => []NoAliasOnDisk
<1>1. FileInv(c) => NoAliasOnDisk
  BY DEF FileInv, AliasInv, HasAlias, NoAliasOnDisk
<1> QED BY <1>1, FileInvariance, PTL

\* If moreover nothing goes wrong, the file keeps what the user wrote until
\* --force is asked for (init_seed, import_from_skk_dict).
THEOREM HandEditsAreKept ==
  ASSUME NEW c, Commands = {c}, Mishaps = {}
  PROVE  Spec => []HandEditsSurvive
<1>1. FileInv(c) => HandEditsSurvive
  BY DEF FileInv, HandInv, HasHand, HandEditsSurvive
<1>2. "edit under way" \notin Mishaps
  OBVIOUS
<1> QED BY <1>1, <1>2, FileInvariance, PTL
=============================================================================
