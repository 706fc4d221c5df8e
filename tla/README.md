# A TLA+ model of RuSKKserv

RuSKKserv is a skkserv proxy: macSKK connects to it, and it asks a primary
(azooKey) and a fallback (yaskkserv2) upstream server, restores okuri-ari
midashi, ranks what comes back with the user's frequencies and with the word
confirmed last, and answers within the second macSKK is willing to wait.

These modules model the parts of it in which the order of events matters, check
them with TLC on small instances, and prove the most important ones with TLAPS
for every instance.

    tlc -config MCBackend.cfg MCBackend      # and so on, see "Runs"
    tlapm BackendProofs.tla
    tlapm SessionsProofs.tla                 # and each other *Proofs module

The theorems are in `BackendProofs`, `DictCacheProofs`, `SessionsProofs`,
`TypingProofs` (which extends the latter), `DeadlineProofs`, `SeedProofs`,
`TableProofs` and `RankingProofs` (which extends the latter).

## The system

| part | source | state | operations | hard behaviour |
|---|---|---|---|---|
| upstream connection | `backend.rs` | `Mutex<Option<BufReader<TcpStream>>>`, one per upstream | `query_with_timeout`: lock, connect, write, read a line, retry once, time out | tasks share one connection, answers carry no ids; the server stalls, closes, restarts |
| conversion context | `proxy.rs` 30-118 | `session_context`, `pending_context` | `on_lookup_start`, `on_lookup_result`, `current_context` | what the user did must be guessed from lookups |
| client sessions | `proxy.rs` 121-471 | locals of `handle_client`: the time of the last response, the request in hand | Lookup, Completion, Version, Host, End | sessions interleave between the two times a lookup takes the context's lock |
| deadlines | `proxy.rs` 135-167, 288-394, 484-560 | time spent | okuri-ari loop, merge, primary then fallback, warm-up | budgets, and waits for a mutex that no budget covers |
| seed file | `frequency.rs` 24-188, `main.rs` | `~/.ruskkserv-frequency.json`, the tables of each process | `load`, `init_seed`, `import_from_skk_dict`, `save`, reload on SIGHUP | no lock on the file, truncating writes, signals that merge or kill |
| ranking | `frequency.rs` 190-381, `proxy.rs` 345-458 | the predictor behind an `RwLock` | `should_rank`, `rank_candidates_borrowed`, `expand_aliases` | shortcuts that must not change the result, tables replaced between two locks |
| okuri expansion | `okuri.rs` | none; `proxy.rs` 295-394 keeps the stems found so far | parse, normalise, expand, extract stems | several spellings of one word must expand and rank alike; variations may stay unasked |
| candidate lists, encodings | `encoding.rs` | none | parse, format, transcode | several parsers of the same text |
| dictionary cache | `system_dict.rs` | a map of at most 20,000 words, one for the process | `has_definition`, `is_annotated_or_in_dict` | two locks and an unlocked call between them, clearing at the limit |
| protocol, configuration, scripts, default seed | `protocol.rs`, `config.rs`, `scripts/`, `launchd/`, `data/` | | | |

How they interact: each accepted connection is a tokio task running
`handle_client`. It calls the two `Backend`s, which all tasks and the start-up
warm-up share; it locks the shared context twice per lookup, before the upstream
is asked and after it has answered; and it takes the predictor's read lock to
rank. The predictor is replaced in place by `reload_on_sighup`, which reads the
seed file that `import-user-dict` (hourly, from launchd) and `init-seed` (by
hand) rewrite in processes of their own.

What makes each part correct, and where it is stated:

- an answer goes with its question, whatever went wrong before on the shared
  connection; every query ends; queries are served in turn (`Backend`);
- the context is the word the user confirmed last, not older than its TTL, and
  machine-made lookups leave no trace in it (`Sessions`, `TypingSession`);
- a client's wait is bounded, and the stages keep their budgets
  (`LookupDeadline`);
- the file never holds aliases and never loses what the user wrote; the server
  always has contexts; a reload is all or nothing; an import reaches the server
  (`SeedStore`);
- ranking permutes candidates by the scores of one table, its shortcuts agree
  with the full computation, and the word taken for shown is the first of the
  response (`Ranking`, `RankedLookup`);
- every spelling of an okuri-ari word asks for the same words and is ranked by
  the same table; taking an ending off what is found loses no stem and invents
  none (`Okuri`, `RankedLookup`);
- an import repeated every hour changes nothing the second time, and the first
  serves the order the user taught (`SeedScores`);
- the cache keeps its limit and gives the dictionary's own verdicts
  (`DictCache`).

## The modules

**`QueryService`** is the abstract promise of an upstream connection: calls are
queued, and served one at a time in that order, each with its own answer or an
error.

**`Backend`** is `query_inner`, an action per await point: `Call` (up to the
lock), `Acquire`, `Dial`, `Send`, `RecvLine`, `RecvEnd`, `Timeout`. `Retry` is
the `continue` of the loop, `Finish` its return, which drops the guard. tokio's
`Mutex` is a FIFO queue (`waiters`). The server's actions are external: it
answers the oldest request, with a good line or an oversize one, cuts a line,
hangs up (what it had sent is delivered or lost), stops and starts listening. A
request is only its identity; encodings and debug output are left out. The
timer may fire whenever it runs.

**`SharedContext`** has the functions of `SharedContextState` as operators on the
pair of its fields. A midashi is a sequence, since only prefixes matter. The
count of hits saturates at 2, the only value it is compared with.

**`Sessions`** is `handle_client` with several connections over one context. A
lookup is `Stamp` (the request is read, `now` and `is_completion_burst` taken),
`Start` (first lock), `Answer` (the upstream answered and the second lock, if
the top candidate has a kanji), `Respond`. The answer is any word or none: the
upstream is abstract. A clock is part of the state and may advance between any
two steps.

**`TypingSession`** puts one user and macSKK in front of one connection of
`Sessions`: `Begin` (macSKK looks up the first character), `Convert` (Space),
`Confirm`, `Abandon` (before or after Space), completions and machine-speed scans.
`conversions` is history: the words Space was pressed on, and when. This part is external
to the repository and follows what `proxy.rs` and its tests say of macSKK. Keys
are pressed when the last answer is older than the burst limit.

**`LookupDeadline`** has the time that `Backend` leaves out, in ticks of 50 ms,
of which every duration in the program is a multiple. A backend is the FIFO
queue `QueryService` promises; only its head's timer runs, because the mutex is
awaited outside the timeout. `Variation`, `Merge`, `Primary`, `Fallback`,
`WarmUp` are the returns of the queries of each stage. `present` says who takes
part in a behaviour.

**`SeedStore`** has the file, any number of command processes, the server
process and the user. A command is `New` (loads, with aliases), `Merge` (reads
the raw file, merges), `Truncate` and `Write` (`fs::write`), then `Exit` or
`Signal`, which kills whatever else runs under the server's name: launchd's copy of
the import has another name, an import by hand has not. The server is `Spawn`,
`Load`, `InstallHandler`, `Reload`, `Stop`. A table is a set of entries, each the user's, the dictionary's or the preset's,
raw or an alias; scores are left out here (`SeedScores` has them). `Mishaps`
chooses what may go wrong.

**`Okuri`** has `okuri.rs` as operators. A text is a sequence of characters, a
character a kanji, an ASCII letter, the marker `*` or a kana. The tables of the
file (kana to letters, letters to endings) are constants; what is done with them
is not. `parse_okuri_midashi_extended` tells the three forms of a midashi apart,
`normalize_okuri_midashi_key` gives the form a dictionary has,
`expand_okuri_variations` the words to ask for, and
`extract_stem_candidates_borrowed` the stems of what came back. `Spellings` and
`SpelledOut` are the ways a user may write one word; they are external.

**`Ranking`** extends it with the functions of `encoding.rs` on candidate lists
and those of `frequency.rs` on scores. A candidate is a word with or without a
note, or the opening or the closing of an okuri block; an alias is a proper
prefix of a word. `is_annotated_or_in_dict` is given here in one step, on the set
of the dictionary's headwords.

**`SeedScores`** has the scores `import-user-dict` gives: what a dictionary line
teaches (`parse_dict_line_candidates`, `OrderScores`) and how a seed takes it
(`Raised`, `import_from_skk_dict`). When the file is read and written is in
`SeedStore`.

**`RankedLookup`** is the second half of a lookup, which `Sessions` has as one
step. `Ask` expands the midashi; `Variation` is one pass of the okuri-ari loop,
the answer of the primary included, and `OutOfTime` its end at 600 ms, at any
moment; `OkuriAnswered` merges the stems with the fallback's candidates and ranks
them; `Answered` is the plain path's decision under the first read lock and
`Rank` the ranking under the second; `Send` tells the context of the top
candidate and writes. `Reload` replaces the tables at any moment. `heard`,
`offered` and `inForce` are history: what the backends said, and which tables
were in force since. `IsRanking` says what a stable sort by score is without
sorting.

**`DictCache`** is `has_definition` by any number of tasks: `Look` under the read
lock, `Query` under none, `Store` under the write lock, which clears the cache at
its limit. `Judge` and `Done` are a call of `is_annotated_or_in_dict`. The
operator of that name in `Ranking` is the abstract specification:
`VerdictIsDictionary` compares the two.

`MC*` modules give instances, two of them with the tables of `MCTables`; each
`.cfg` opens with what it is about.

## Runs

| run | instance | checked | shows |
|---|---|---|---|
| `MCBackend.cfg` | 3 tasks, 2 requests | `TypeOK`, `AnswersOwnRequest`, `HandedOverClean`, `StaleConnectionIsRetried`, `IsQueryService`, `EveryCallReturns` | the connection is safe to share, in turn, and nobody waits for ever |
| `MCSessions.cfg` | 2 connections, 3 midashi, 1 word, 4 instants | `TypeOK`, `SnapshotFresh`, `BurstsLeaveNoTrace` | expiry and burst guard under every interleaving |
| `MCTypingSession.cfg` | 1 user, 4 midashi, 8 instants | `TypingTypeOK`, `ConfirmedIsContext`, `OnlyConfirmedUnlessAbandoned`, `GrownWordsAreConverted` | the guess at the confirmed word is right, for a user who abandons nothing; and what may enter the context when words are cancelled |
| `MCDeadline.cfg` | one or two clients, warm-up, real durations | `TypeOK`, `AnsweredInTime`, `OkuriInTime`, `OverallDeadlineKept` | the exact worst waits |
| `MCSeedStore.cfg` | 1 command at a time, no mishap | `TypeOK`, `NoAliasOnDisk`, `HandEditsSurvive`, `ImportReachesServer` | the normal life of the file |
| `MCSeedHostile.cfg` | 2 commands, all mishaps | `ServerHasContext`, `ReloadIsAllOrNothing` | what holds whatever happens to the file |
| `MCRankedLookup.cfg` | 1 session, 6 midashi (3 okuri-ari words, one spelled 3 ways), 5 seeds, 2 user dictionaries | `TypeOK`, `RankedByOneTable`, `NothingLost`, `ScoresFromSeed`, `ExpansionIsStable`, `SpellingsAgree`, `ImportIsIdempotent`, `UserOrderServed`, `ShownIsPending` | okuri expansion, merging, importing and ranking beside hot reloads |
| `MCDictCache.cfg` | 2 tasks, 4 candidates, 3 midashi, a cache of 3 | `TypeOK`, `CacheBounded`, `VerdictIsDictionary` | tasks that fill, clear and read one cache |
| `MCSessionsBack.cfg` | 2 connections, 2 words | `ContextNeverGoesBack` **violated** | see below |
| `MCTypingAbandon.cfg` | as `MCTypingSession` | `OnlyConfirmedIsContext` **violated** | see below |
| `MCDeadlineClient.cfg` | one client alone | `WithinClientLimit` **violated** | see below |
| `MCSeedTypo.cfg` | 1 command, mistyped edits | `HandEditsSurvive` **violated** | see below |

The bounds. Three tasks are one that holds the mutex and two that wait, so that
order matters; two requests tell a right answer from a wrong one; requests are
otherwise never compared. Queues need no bound: a task has one query. Two
connections are enough for every interleaving of the two critical sections of a
lookup with those of another; three midashi are one, its extension, and an
unrelated one; the clock lasts long enough for a word to be looked up, promoted
and to expire. In `MCTypingSession` the clock allows four words, enough for
each midashi to be begun after each other one, with a burst in between, and an
expiry; its characters are symmetric where the four midashi are (`MCSymmetry`).
In `MCRankedLookup` sessions share only the tables, which a reload may change at any moment, so one session suffices; the
midashi are a plain one, and okuri-ari ones with a stem of one, two and three
characters, for which the code has different tables, in small letters, capitals,
with a star, and with the last kana in letters; the seeds have no contexts, an
empty map that hides that of the lower-case midashi, scores for an alias and for
the word it stands for, and an import; the answers have notes, blocks, one
candidate, nothing, and a line no slash closes. The tables have the rows of `r`
and `t`, which are those that depend on the stem's length. `UserOrderServed` is asked for the
context of each lookup, with and without `--annotation-priority`, for candidates
with and without notes, some of them in the dictionary. In `MCDictCache` a
midashi asks about up to six texts, more than the cache holds, so tasks clear it
under each other. In `MCDeadline` the durations are the program's; four variations of 300 ms
cannot all fit the 600 ms, which is the case that matters. In `SeedStore` nothing
is counted.

The clocks run out (`MaxClock`), so those runs allow deadlock; the other
systems never stop.

Fairness. `EveryCallReturns` assumes weak fairness of each task's own steps:
the runtime polls ready tasks and fires timers. Nothing is assumed of the
server. It holds through `Timeout`; no answer is ever needed. `ImportReachesServer`
assumes that launchd restarts the server, that its tasks run, that a command in
`fs::write` or about to signal continues, and strong fairness of `Reload` while
the file is readable: imports are an hour apart, so not every reload can fall
into the microseconds of one. No command has to be started, and the server may
stop at any time.

### What the worst waits are

`WorstCase` in `LookupDeadline` is exact: with one tick less, TLC finds a longer
wait. Alone, an okuri-ari lookup takes 600 + 850 = 1450 ms and any other
850 ms. Beside another client a plain lookup takes 1700 ms and an okuri-ari one
2900 ms, since waiting for the mutex is in nobody's timeout. While the warm-up
runs, 3000 + 300 + 500 + 600 = 4400 ms.

### Where code and documentation disagree

- `ContextNeverGoesBack`: two overlapping lookups on two connections may be
  recorded in the opposite order of their stamps, and the older word then
  replaces the newer one as the context.
- `OnlyConfirmedIsContext`: a first-character lookup whose word is abandoned is
  promoted when a word with another first character is begun. So is a word of
  any length that Space converted and the user then cancelled: nothing on the
  wire tells it from one confirmed. `GrownWordsAreConverted` is what remains: a
  word of more than one character needs Space to enter the context, and counts
  its age from there, whatever is completed, scanned or cancelled.
- `WithinClientLimit`: the okuri-ari loop comes before the 850 ms that were
  meant to keep a lookup within a second.
- `HandEditsSurvive` with `"typo"`: `init-seed` overwrites a file that does not
  parse.

Also seen while modelling, and not given a run:

- the fallback's configured timeout is not applied in `lookup_with_fallback`
  (`proxy.rs:521`): it is given what is left of 850 ms;
- the raw reload that is to keep aliases out of the file (`frequency.rs:52-53`)
  skips a file it cannot parse. With two commands at once one may find it
  truncated by the other, and then saves the tables it expanded when it started:
  `NoAliasOnDisk` is checked for one command at a time and fails with
  `Commands = {c1, c2}`, one import by hand beside the hourly one;
- `pkill -x ruskkserv` also kills an import or an `init-seed` that runs by hand at
  that moment, and its write is lost;
- the learned order wears off: an import keeps the higher of two scores
  (`frequency.rs:170-174`), so after [A, B] and, later, [B, A] both words have the
  highest, and the order is the upstream's again, where `README.md:28` and `:212`
  let the import carry the user's order. `UserOrderServed` is therefore about a
  midashi the seed says nothing of yet, and only where no note (100 points), no
  dictionary entry (100) and no context (10 times its score) speaks for the later
  word: any of them outweighs the N to 1 points of an import, as the code means it
  to, and both options are on by default;
- the comment on `import_from_skk_dict` says scores are added
  (`frequency.rs:132`), the one at its loop that they are not (`:168`); the code
  follows the second, and `ImportIsIdempotent` needs it to;
- only the okuri path normalises the midashi before the tables are asked
  (`proxy.rs:378`). When no stem is found, a star or a compound spelling gets to
  the plain path (`:409`) as typed and finds no row;
- `RankedByOneTable` leaves out lines that no slash closes: for
  `has_multiple_candidates` they have one candidate less than for the parser.

All but the comment's are among the hazards in `PROJECT.json`.

## Proofs

Every invariant and every action property the passing runs check is a theorem,
for every value of the constants that satisfies the assumptions named below; only
liveness, and the part of `AnsweredInTime` that has the warm-up in it, is left to
TLC.

### The upstream connection

`BackendProofs` proves, for every set of tasks and of requests, with no
assumption but that `NoTask` is not a task:

| theorem | states |
|---|---|
| `TypeCorrect` | `Spec => []TypeOK` |
| `OwnAnswer` | `Spec => []AnswersOwnRequest` |
| `CleanHandOver` | `Spec => []HandedOverClean` |
| `StaleRetried` | `Spec => StaleConnectionIsRetried` |
| `Refinement` | `Spec => IsQueryService` |

All follow from one inductive invariant, `IInv`. `AnswersOwnRequest` is not
inductive: that the next line answers the holder's request depends on what is
on the wire and in the socket. `IInv` says who may be where (only the holder is
running, the waiters are exactly the tasks queued, each once), and that the wire
and the inbox together hold at most one entry, which is the holder's request
while it is receiving, and nothing otherwise. `fresh` gives `StaleRetried`: a
second attempt only ever runs on a connection dialled by the same query. There
is a lemma per action (`CallInv`, `AcquireInv`, ...), joined in `NextInv` and
`Invariance`. `Refinement` adds a lemma per kind of step: a `Call` asks, a
`Finish` serves the head of the queue, everything else is a stutter.

### The dictionary cache

`DictCacheProofs` proves, for every set of tasks and of candidates, every
dictionary, every table of endings and every positive limit:

| theorem | states |
|---|---|
| `TypeCorrect` | `Spec => []TypeOK` |
| `CacheStaysBounded` | `Spec => []CacheBounded` |
| `VerdictsAreRight` | `Spec => []VerdictIsDictionary` |

The assumptions are those of the modules: the limit is a positive number, the
candidates have words and notes, the rows of the dictionary endings are
sequences. The inductive invariant adds three facts to the properties. What the
cache says is so (`CacheInv`), whoever stored it. A task that stores has been
told about the very text it stores (`ResInv`). And the texts a task has still to
ask about decide its verdict, as all its texts together do (`LeftInv`): those it
has asked about are not in the dictionary. `CacheBounded` is inductive only
because room is made under the same lock as the text is stored, and for one text
at a time (`InsertInv`); the lemma `ConcludeInv` is common to a hit and to a
store. `QueriesType` says that what is asked about a word is a sequence of at
least one text, for all three forms of a midashi.

### Client sessions

`SessionsProofs`, for any number of connections, any midashi and words, any
limits and any length of the clock:

| theorem | states |
|---|---|
| `TypeCorrect` | `Spec => []TypeOK` |
| `SnapshotsAreFresh` | `Spec => []SnapshotFresh` |
| `BurstsAreHarmless` | `Spec => BurstsLeaveNoTrace` |

The two operators that change the context have a lemma each (`OnLookupStart`,
`OnLookupResult`), about any state and any instant: what is returned is well
typed, and a context that is returned is no older than its limit at the instant
it was asked for. That carries over to the steps because the snapshot and the
session's stamp are kept together until the session stamps again. The invariant
adds only that a lookup under way has a midashi.

### The typing user

`TypingProofs`, for any words, any limits, any length of typing and of the clock:

| theorem | states |
|---|---|
| `TypingIsSessions` | `TypingSpec => Spec` |
| `TypingTypeCorrect` | `TypingSpec => []TypingTypeOK` |
| `GrownWordsConverted` | `TypingSpec => []GrownWordsAreConverted` |
| `OnlyConfirmed` | `TypingSpec => []OnlyConfirmedUnlessAbandoned` |
| `ContextIsConfirmed` | `TypingSpec => []ConfirmedIsContext`, with `--context-ranking` |

`TypingAssumption` says that a word has a first character and that macSKK looks it
up too, as the comments in `proxy.rs` have it, and that a kanji word is named by
its midashi.

The first theorem makes the user a client like any other, so that what is proved
of `Sessions` holds here. For the others the invariant (`TypingInv`) has to say
where a word is between its confirmation and the lookup it serves as context for.
It waits (`StillPending`) while nothing but its own first character was looked up
again, and it is the context (`IsContext`) from the moment another word is begun.
The delicate steps are those in between: the first character of the next word
may be that of the waiting one, and its count of hits then decides which of the
two survives (`Started`, `Converted`); and a lookup is judged by its stamp, not
by the clock, since the two locks are taken later (`LastStamp`). What is
abandoned spoils `UnconfirmedInv`, and nothing else: `GrownWordsConverted`
holds for a user who cancels words, before or after Space, and for scans. Its
invariant (`GrownInv`) follows a stamp from Space to the pending word and from
there to the context.

### Deadlines

`DeadlineProofs`, for any durations, clients and numbers of variations:

| theorem | states |
|---|---|
| `TypeCorrect` | `Spec => []TypeOK` |
| `OkuriLoopInTime` | `Spec => []OkuriInTime` |
| `DeadlineKept` | `Spec => []OverallDeadlineKept` |
| `AnsweredAmongClients` | `Spec => [](Warmer \notin present => AnsweredInTime)` |

`DeadlineAssumption` is about the durations: the cap of an okuri query is at most
the primary's (300 and 600 ms), and that and the merge's are at most the overall
deadline (200, 600 and 850 ms). The bounds depend on it.

What a lookup has waited says nothing of what it may still wait. For a client
alone, the invariant (`AloneInv`) is that what a stage has spent and what its
query's timer still allows stay within the stage's budget together, and that a
task who has the backends to itself is at the head of the queue it is in, so
that every tick of its wait is a tick of its timer.

Among any number of clients (`CrowdInv`), a place in a queue is a claim on time:
the head's timer, and for each other query ahead the longest one the backend
takes (`Ahead`). What a client has waited, its own timer and what is ahead of it
stay within the limit of its stage together (`WaitInv`). A tick takes one from the
head and adds one to the wait; a query that leaves moves everyone up; a query
that is asked finds at most one query of each other client ahead, because a client
is in one queue, once (`QueueInv`). That is why each other client costs a lookup
one whole deadline, and the okuri loop, which starts no query once its own
budget is spent, one query more.

With the warm-up in the line-up the bound of `WorstCase` is TLC's, for one client:
it is a maximum over the ways the program's durations fit each other, and not one
formula for all.

### The seed file

`SeedProofs`. For any set of commands and any mishaps (`ServerInv`):

| theorem | states |
|---|---|
| `TypeCorrect` | `Spec => []TypeOK` |
| `ContextAlways` | `Spec => []ServerHasContext` |
| `ReloadsAreAtomic` | `Spec => ReloadIsAllOrNothing` |

For one command at a time, since nothing locks the file (`FileInv`):

| theorem | for | states |
|---|---|---|
| `AliasesStayInMemory` | any mishap but an edit while a command runs | `Spec => []NoAliasOnDisk` |
| `HandEditsAreKept` | no mishap | `Spec => []HandEditsSurvive` |

What is on the disk depends on what a command has in its hands: a command that
has loaded has aliases in memory, but only if the file can be read again before
it merges (`AliasInv`); while a command writes, the user's entries are in its
memory and nowhere else (`HandInv`).

### The tables

`TableProofs`, for any seeds, presets and user dictionaries, of any length:

| theorem | states |
|---|---|
| `ScoresServed` | `Spec => []ScoresFromSeed` |
| `ServedIsStable` | `Spec => []ExpansionIsStable` |
| `ImportsSettle` | `Spec => []ImportIsIdempotent` |

The assumptions are what the types of the program give: midashi and words are
strings, that is finite (`TextAssumption`), maps are finite and scores are
natural numbers (`TablesAssumption`, `SeedsAssumption`), a user dictionary is a list
of lines (`UserDictsAssumption`). Two more say that no empty string is a context's
key, which no alias is either.

A maximum over the words an alias stands for exists because the map is finite
(`HighestExists`). Expansion is stable because an alias of an alias is an alias
(`AliasOfAlias`): the words that give a word its score give it no more the second
time (`ClosedIsStable`). A load leaves both maps closed in that sense (`Loaded`);
`InForce`, that what is served is the load of the stored seed, carries this along
the behaviours.

An import is a fold, and is followed line by line. `FoldExists` turns a fold into
the sequence of its results, and `IndexInd` is induction along it, on a set: a
score once taught is never lowered (`AboveTransitive`, `TaughtStays`), and after
the import every line's words have at least the line's scores (`ImportOf`), so
that importing it again raises nothing (`ImportAgain`), others in between or not.

### The order of candidates

`RankingProofs`, for lists of any length and any scores:

| theorem | states |
|---|---|
| `SortIsRanking` | the sort satisfies `IsRanking` |
| `RankIsRanking` | so does `rank_candidates_borrowed`, early returns included |
| `FastPathIsRanking` | so does passing on an answer `handle_client` does not rank |
| `OneTable` | `Spec => []RankedByOneTable` |
| `UserOrderIsServed` | `Spec => []UserOrderServed` |
| `TopIsShown` | `Spec => ShownIsPending` |

`Places` is the heart of the first: counting the candidates ahead of each gives
each a place of its own. `OneTable` joins the other two along a lookup, with the
reloads between its two locks; its invariant (`SessionInv`) says that the tables
in force while a session is about to rank are among those recorded for it, and
that the lines of the okuri path are closed.
`UserOrderIsServed` goes from the line of the dictionary to the list the client
gets: the import gives falling scores (`ImportedOrder`), the load may raise them
to that of a longer word and keeps the order of the words the property is about
(`OrderKept`). What else makes a score does not depend on the frequencies
(`LearnedScore`), so that where it is no less for the word taught first, the sort
follows the import. `TopIsShown` needs no types: until a
response is written its first word and the top candidate are the same (`ShownInv`).

### Lists and lookups

Also `RankingProofs`, for any sessions, backends, tables of endings and seeds:

| theorem | states |
|---|---|
| `LookupTypeCorrect` | `Spec => []TypeOK` |
| `AllIsShown` | `Spec => []NothingLost` |
| `SpelledOneWay` | `Spec => []SpellingsAgree` |

Each of the loops of the code is a fold here, and has a pair of lemmas, about one
step and about all: pushing what is not there yet (`PushSteps`, `PushedAll`),
extracting stems (`ExtractSteps`, `Extracted`), taking okuri blocks apart
(`UnpackSteps`, `Unpacked`) and merging (`MergeSteps`, `MergedAll`). `Permuted` says
that the sort loses nothing.

`TypeOK` is inductive together with two facts: `InForce`, since a table's scores
are numbers because of the seed it was loaded from, and that a stem is found once
(`Typed`). `NothingLost` is about the response; what it comes from is gone by then.
`Accounted` keeps the books meanwhile: what has been heard and ends in a kanji
without its ending is among the stems; a stem has been heard, whole or with its
ending; and a response has those stems, and the words offered for the midashi,
and no other. Taking an ending off is undone by putting it back (`SuffixTaken`,
`SuffixAdded`), so neither a word is lost nor one made up.

`SpelledOneWay` takes each spelling apart: the first star is where it was put
(`StarSplit`), the letters at the end are those that were added to a stem without
letters (`AlphaSplit`), and the letters of a kana, one of them a capital, are read
as that kana (`RomajiRead`). All spellings so come to one stem and one key
(`SpelledAlike`, `SpelledOutAlike`). Along a lookup, what is still to be asked for
stays the rest of what its midashi stands for (`AsksOn`), and the response it
ends in is in the order of one table, asked for the normalised midashi
(`SessionInv`): that is the row of the word.

The assumptions:

- `EndingsAssumption`, `KanaAssumption`: the tables of `okuri.rs` have hiragana, not
  letters, on the right, and lower-case romaji on the left; none of it is empty.
- `LookupAssumption`: contexts are words; a word cut at its end is a word, since
  `Words` stands for all strings a candidate may be; the stems of okuri-ari words
  are kana and kanji and their keys small letters, as dictionaries have them.
- `BackendsAssumption`: an answer that is not found has no candidates, a closing of
  a block closes one, and the primary's answers to whole words have no blocks,
  which SKK has in okuri-ari entries only. Without the last, the word that closes
  a block would be heard, bracket included, and no stem taken from it.

TLC evaluates all of them on the instances of the runs.

### Not proved

- Liveness (`EveryCallReturns`, `ImportReachesServer`), which is out of TLAPS's
  reach here.
- `AnsweredInTime` when the warm-up takes part.

Both are model-checked. Induction is done on sets, by `NatInd` and `IndexInd`: the
library's induction theorems take an operator as a parameter, which the provers
cannot instantiate.

## Not modelled

Formatting, logging, encodings on the wire and TCP options, everywhere.

- `protocol.rs`: the outcomes of `parse_request` are the requests of a client in
  `Sessions`; the text of requests on the wire is not modelled.
- `config.rs`: flags and timeouts are constants of the models; parsing addresses
  and arguments has no state.
- `encoding.rs`: transcoding between EUC-JP and UTF-8 is a library's.
- `okuri.rs`: `parse_okuri_midashi`, which only tests call; the tables, which are
  constants (the instances have two of their rows).
- `system_dict.rs`: the call into macOS. The dictionary is a set that does not
  change; one that did would be served from the cache until it is cleared.
- Scores are unbounded numbers; the code's are `u64`.
- The scripts, the launchd files and the default seed appear only in what they
  imply for `SeedStore`.
- Recovery from poisoned locks, everywhere.

## Plan

1. `Sessions` over `QueryService`: upstream queues between the two critical
   sections, with `RankedLookup` as what a session does while it is asking, and
   that each implements the module it refines.
2. `AnsweredInTime` with the warm-up: the bound as a formula of the durations, for
   any number of clients.
3. `SeedStore` with `SeedScores`: the scores in the file the commands write.
