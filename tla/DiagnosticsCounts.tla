--------------------------- MODULE DiagnosticsCounts ---------------------------
(***************************************************************************)
(* What the diagnostics say of the workbooks: the adapters that turn rows  *)
(* into records (adapters.py), the four accumulators that see each record  *)
(* once (calendar_diag.py, dedup_diag.py, text_length_diag.py,             *)
(* coverage_diag.py), and the reports built from them.  DiagnosticsRun     *)
(* says which records are counted; this module says what counting them     *)
(* amounts to when a run is cut at any chunk: three accumulators go        *)
(* through a JSON state, the fourth keeps its groups in SQLite tables, and *)
(* one transaction writes both.                                            *)
(*                                                                         *)
(* A text is a member of a small set with a quality and a length; a raw    *)
(* timestamp is a kind and an instant; a cell that names an account has a  *)
(* form ("object", "mangled", "none"); "" is an absent value.  Whitespace *)
(* token counters follow the length counters and are left out, as are      *)
(* event_counts, equal to edge_counts, and the sample metadata, equal to   *)
(* the examples.                                                           *)
(***************************************************************************)
EXTENDS Integers, Sequences, FiniteSets, Bags, SequencesExt, FiniteSetsExt

CONSTANTS Inputs,       \* what the workbooks may be: sequences of workbooks
          Names,        \* what accounts and tweets are called; "" for none
          NodeMap,      \* accounts of the frozen node map
          Relations,    \* relations of the configuration
          Malformed,    \* tweet ids that went through a float
          Quality,      \* of every text: "null", "empty", "blank", "ok"
          TextSize,     \* characters of every text
          Starts,       \* first instants of the quarters, and of the one after
          MinEpoch, MaxEpoch,  \* reasonable instants
          Millis,       \* numbers above it are milliseconds
          Quantiles,    \* as <<numerator, denominator>>
          ExampleLimit, \* examples kept for a dataset
          ChunkSize

ASSUME CountsAssumption ==
  /\ {ChunkSize, ExampleLimit} \subseteq Nat \ {0}
  /\ Starts \in Seq(Int) /\ Starts # << >>
  /\ \A i \in 1 .. Len(Starts) - 1 : Starts[i] < Starts[i + 1]
  /\ {MinEpoch, MaxEpoch, Millis} \subseteq Int
  /\ Quantiles \subseteq Nat \X Nat
  /\ \A q \in Quantiles : 0 < q[1] /\ q[1] < q[2]
  /\ Quality \in [DOMAIN Quality -> {"null", "empty", "blank", "ok"}]
  /\ TextSize \in [DOMAIN Quality -> Nat]
  /\ "" \in Names /\ "" \notin Relations

\* Workbooks; names are numbers, in the order in which names are compared.
Cells == [form : {"object", "mangled", "none"}, exact : BOOLEAN, digits : Names]
Times == [kind : {"missing", "text", "nan", "date", "number"}, at : Int]
Statuses == [user : Cells, own : Cells]
Rows == [user : Cells, time : Times, text : DOMAIN Quality, id : Names, mentions : Seq(Cells),
         retweet : Statuses, reply : Statuses, quote : Statuses]
Books == [name : Int, dataset : {"A", "B"}, rows : Seq(Rows)]
ASSUME InputsAssumption == Inputs \subseteq Seq(Books)

VARIABLES books,   \* the workbooks of this run
          db,      \* committed: position, JSON states, dedup tables
          mem,     \* the session's position, accumulators and tables
          pc,      \* "down", "run" or "sealed"
          reports

vars == <<books, db, mem, pc, reports>>

(***************************************************************************)
(* Quarters and timestamps.                                                *)
(***************************************************************************)
Quarters == 0 .. Len(Starts) - 2
NoQuarter == -1
AssignSnapshot(at) ==
  IF \E s \in Quarters : Starts[s + 1] <= at /\ at < Starts[s + 2]
    THEN CHOOSE s \in Quarters : Starts[s + 1] <= at /\ at < Starts[s + 2]
    ELSE NoQuarter

InCalendar(at) ==
  [at |-> at, sid |-> AssignSnapshot(at),
   reason |-> IF AssignSnapshot(at) # NoQuarter THEN "IN_RANGE"
              ELSE IF at < Starts[1] THEN "OUT_BEFORE" ELSE "OUT_AFTER"]

Rejected(reason) == [at |-> 0, sid |-> NoQuarter, reason |-> reason]

\* a date is taken as it is; a number is an epoch within reason
Classify(raw) ==
  CASE raw.kind = "missing" -> Rejected("MISSING")
    [] raw.kind = "text"    -> Rejected("UNPARSABLE")
    [] raw.kind = "nan"     -> Rejected("CORRUPT")
    [] raw.kind = "date"    -> InCalendar(raw.at)
    [] raw.kind = "number"  ->
         LET at == IF raw.at > Millis THEN raw.at \div 1000 ELSE raw.at
         IN  IF at < MinEpoch \/ at > MaxEpoch THEN Rejected("OUTLIER") ELSE InCalendar(at)

Parsed(t) == t.reason \in {"IN_RANGE", "OUT_BEFORE", "OUT_AFTER"}
Label(r) == Classify(r.time).sid   \* NoQuarter stands for "unknown"

(***************************************************************************)
(* The adapters.  A tweet of dataset A is one record per target, or one    *)
(* without relation; a tweet of dataset B is one record.                   *)
(***************************************************************************)
\* The account a cell names: an object's id, if it is an integer (a float has
\* lost digits); of a text that does not load, the digits that follow "id".
AccountOf(cell) ==
  IF cell.form = "mangled" \/ (cell.form = "object" /\ cell.exact) THEN cell.digits ELSE ""

\* the account of the status's user or, without a user, the status's own id
StatusAccount(cell) == AccountOf(IF cell.user.form = "none" THEN cell.own ELSE cell.user)

\* a target that names an account, or none
Naming(relation, account) == IF account = "" THEN << >> ELSE << <<relation, account>> >>

Record(book, i) ==
  LET row == book.rows[i]
  IN  [dataset |-> book.dataset, file |-> book.name, row |-> i + 1, time |-> row.time,
       author |-> AccountOf(row.user), id |-> row.id, text |-> row.text,
       relation |-> "", target |-> ""]

Targets(row) ==
  FlattenSeq([i \in DOMAIN row.mentions |-> Naming("mention", AccountOf(row.mentions[i]))]
               \o <<Naming("retweet", StatusAccount(row.retweet)),
                    Naming("reply", StatusAccount(row.reply)),
                    Naming("quote", StatusAccount(row.quote))>>)

RowRecords(book, i) ==
  LET targets == IF book.dataset = "A" THEN Targets(book.rows[i]) ELSE << >>
  IN  IF targets = << >> THEN <<Record(book, i)>>
      ELSE [k \in DOMAIN targets |-> [Record(book, i) EXCEPT !.relation = targets[k][1],
                                                             !.target = targets[k][2]]]

Records(book, from, to) ==
  FlattenSeq([i \in 1 .. to - from |-> RowRecords(book, from + i)])

Mapped(account) == account \in NodeMap
NodeText(r) == r.dataset = "B" /\ Quality[r.text] = "ok"
EdgeText(r) == r.dataset = "A" /\ Quality[r.text] = "ok"

(***************************************************************************)
(* The accumulators.  A Counter is a bag.                                  *)
(***************************************************************************)
Inc(counter, keys) == counter (+) SetToBag(keys)
CountOf(key, counter) == IF key \in DOMAIN counter THEN counter[key] ELSE 0
When(condition, keys) == IF condition THEN keys ELSE {}

NoRows == [inspected |-> 0, accepted |-> 0, rejected |-> 0, files |-> {}]
Tally(t, r, ok) == [inspected |-> t.inspected + 1, files |-> t.files \cup {r.file},
                    accepted |-> t.accepted + (IF ok THEN 1 ELSE 0),
                    rejected |-> t.rejected + (IF ok THEN 0 ELSE 1)]

\* the first and the last
Extremes(instants) == When(instants # {}, {Min(instants), Max(instants)})

ObserveCalendar(c, r) ==
  LET t     == Classify(r.time)
      known == c.span \cup When(Parsed(t), {t.at})
      ok    == t.reason = "IN_RANGE"
  IN  [rows    |-> Tally(c.rows, r, ok),
       reasons |-> Inc(c.reasons, {t.reason}),
       span    |-> Extremes(known),
       counts  |-> Inc(c.counts, When(ok, {<<r.dataset, t.sid>>})),
       nodes   |-> c.nodes \cup When(ok /\ Mapped(r.author), {<<r.dataset, t.sid, r.author>>})]

Content(r) == <<IF Quality[r.text] = "null" THEN "" ELSE r.text, r.relation, r.target>>
WholeRow(r) == <<r.dataset, r.id, r.author, r.time>> \o Content(r)

DedupEffect(r) ==
  IF r.dataset = "B"
    THEN IF r.id = "" THEN "null_key"
         ELSE IF r.id \in Malformed THEN "malformed_tweet_id" ELSE "accepted"
    ELSE IF r.author = "" \/ r.time.kind = "missing" THEN "null_key" ELSE "accepted"

GroupKeys(r) ==
  {<<"full_row", WholeRow(r)>>} \cup
    (IF r.dataset = "B" THEN {<<"tweet_id", <<r.id>>>>}
     ELSE {<<"composite", <<r.author, r.time>> \o Content(r)>>,
           <<"user_timestamp", <<r.author, r.time>>>>})

Occurrence(r, key) == [kind |-> key[1], key |-> key[2], file |-> r.file, row |-> r.row,
                       content |-> Content(r)]

ObserveDedup(d, r) ==
  LET effect == DedupEffect(r)
      ok     == effect = "accepted"
  IN  [rows       |-> Tally(d.rows, r, ok),
       byFile     |-> Inc(d.byFile, {<<r.file, effect>>}),
       bySnapshot |-> Inc(d.bySnapshot, When(ok, {Label(r)}))]

\* the rows that the dedup accumulator writes while it observes
StoreOccurrences(tables, r) ==
  [users |-> Inc(tables.users, When(r.author # "", {r.author})),
   occurrences |-> Inc(tables.occurrences,
                       When(DedupEffect(r) = "accepted",
                            {Occurrence(r, key) : key \in GroupKeys(r)}))]

ObserveText(x, r) ==
  LET quality == Quality[r.text]
      ok      == quality \notin {"null", "empty"}
      size    == TextSize[r.text]
  IN  [rows      |-> Tally(x.rows, r, ok),
       quality   |-> Inc(x.quality, {<<r.dataset, quality>>}),
       chars     |-> Inc(x.chars, When(ok, {<<r.dataset, size>>})),
       snapshots |-> Inc(x.snapshots, When(ok, {<<r.dataset, Label(r), size>>})),
       relations |-> Inc(x.relations, When(ok /\ r.relation # "", {<<r.relation, size>>})),
       examples  |-> IF quality = "ok" /\ Len(x.examples[r.dataset]) < ExampleLimit
                       THEN [x.examples EXCEPT ![r.dataset] =
                               Append(@, <<r.text, Label(r), r.relation>>)]
                       ELSE x.examples]

\* what becomes of a record: the first check it fails
CoverageFate(r) ==
  IF r.author = "" \/ r.time.kind = "missing" \/ (r.dataset = "A" /\ r.relation = "")
    THEN "missing"
  ELSE IF r.dataset = "A" /\ r.relation \notin Relations THEN "invalid"
  ELSE IF ~Mapped(r.author) THEN "outside"
  ELSE IF r.dataset = "A" /\ r.author = r.target THEN "loop" ELSE "accepted"

ObserveCoverage(v, r) ==
  LET fate   == CoverageFate(r)
      ok     == fate = "accepted"
      struct == ok /\ r.dataset = "A"
      node   == <<Label(r), r.author>>
      edge   == <<Label(r), r.relation>>
  IN  [rows      |-> Tally(v.rows, r, ok),
       fates     |-> Inc(v.fates, When(~ok, {fate})),
       struct    |-> v.struct \cup When(struct, {node}),
       text      |-> v.text \cup When(ok /\ NodeText(r), {node}),
       active    |-> v.active \cup When(ok /\ (struct \/ NodeText(r)), {node}),
       nodeTexts |-> Inc(v.nodeTexts, When(ok /\ NodeText(r), {node})),
       edges     |-> Inc(v.edges, When(struct, {edge})),
       available |-> Inc(v.available, When(struct, {<<Label(r), EdgeText(r)>>})),
       edgeTexts |-> Inc(v.edgeTexts, When(struct /\ EdgeText(r), {edge}))]

NothingObserved ==
  [calendar |-> [rows |-> NoRows, reasons |-> EmptyBag, span |-> {}, counts |-> EmptyBag,
                 nodes |-> {}],
   dedup    |-> [rows |-> NoRows, byFile |-> EmptyBag, bySnapshot |-> EmptyBag],
   text     |-> [rows |-> NoRows, quality |-> EmptyBag, chars |-> EmptyBag,
                 snapshots |-> EmptyBag, relations |-> EmptyBag,
                 examples |-> [d \in {"A", "B"} |-> << >>]],
   coverage |-> [rows |-> NoRows, fates |-> EmptyBag, struct |-> {}, text |-> {}, active |-> {},
                 nodeTexts |-> EmptyBag, edges |-> EmptyBag, available |-> EmptyBag,
                 edgeTexts |-> EmptyBag]]
EmptyTables == [users |-> EmptyBag, occurrences |-> EmptyBag]

\* _consume_chunk: the four of them see every record
Observe(m, r) ==
  [m EXCEPT !.acc = [calendar |-> ObserveCalendar(@.calendar, r),
                     dedup |-> ObserveDedup(@.dedup, r),
                     text |-> ObserveText(@.text, r),
                     coverage |-> ObserveCoverage(@.coverage, r)],
            !.tables = StoreOccurrences(@, r)]

(***************************************************************************)
(* to_state and from_state: a counter is written as its keys and numbers.  *)
(***************************************************************************)
Written(counter) == {<<key, counter[key]>> : key \in DOMAIN counter}
Restored(pairs) == [key \in {p[1] : p \in pairs} |-> (CHOOSE p \in pairs : p[1] = key)[2]]

CalendarCounters == {"reasons", "counts"}
DedupCounters == {"byFile", "bySnapshot"}
TextCounters == {"quality", "chars", "snapshots", "relations"}
CoverageCounters == {"fates", "nodeTexts", "edges", "available", "edgeTexts"}
Counters == [calendar |-> CalendarCounters, dedup |-> DedupCounters,
             text |-> TextCounters, coverage |-> CoverageCounters]

ToState(acc) == [a \in DOMAIN acc |-> [f \in DOMAIN acc[a] |->
                   IF f \in Counters[a] THEN Written(acc[a][f]) ELSE acc[a][f]]]
FromState(state) == [a \in DOMAIN state |-> [f \in DOMAIN state[a] |->
                       IF f \in Counters[a] THEN Restored(state[a][f]) ELSE state[a][f]]]

(***************************************************************************)
(* The reports.                                                            *)
(***************************************************************************)
EmptyQuarters(c) ==
  LET count(s) == CountOf(<<"A", s>>, c.counts) + CountOf(<<"B", s>>, c.counts)
      leading  == {s \in Quarters : \A k \in 0 .. s : count(k) = 0}
      trailing == {s \in Quarters \ leading : \A k \in Quarters : k >= s => count(k) = 0}
  IN  [leading |-> leading, trailing |-> trailing,
       internal |-> {s \in Quarters \ (leading \cup trailing) : count(s) = 0}]

CalendarReport(c) ==
  LET empty == EmptyQuarters(c)
      span  == Quarters \ (empty.leading \cup empty.trailing)
  IN  [rows |-> c.rows, reasons |-> c.reasons, instants |-> c.span, empty |-> empty,
       candidate |-> IF span = {} THEN << >> ELSE <<Min(span), Max(span), Cardinality(span)>>,
       perQuarter |-> [s \in Quarters |-> [d \in {"A", "B"} |->
          [records |-> CountOf(<<d, s>>, c.counts),
           nodes |-> Cardinality({n \in c.nodes : n[1] = d /\ n[2] = s})]]]]

\* one kind of groups, from the occurrence table
ClassifyGroups(occurrences, kind) ==
  LET all        == {o \in DOMAIN occurrences : o.kind = kind}
      groups     == {o.key : o \in all}
      of         == [g \in groups |-> {o \in all : o.key = g}]
      count      == [g \in groups |-> MapThenSumSet(LAMBDA o : occurrences[o], of[g])]
      repeated   == {g \in groups : count[g] >= 2}
      concordant == {g \in repeated : Cardinality({o.content : o \in of[g]}) = 1}
      First(o, p) == o.file < p.file \/ (o.file = p.file /\ o.row < p.row)
      canonical(g) == CHOOSE o \in of[g] : \A p \in of[g] : ~First(p, o)
  IN  [groups |-> Cardinality(groups), rows |-> MapThenSumSet(LAMBDA g : count[g], groups),
       concordant |-> concordant, discordant |-> repeated \ concordant,
       cross |-> {g \in repeated : Cardinality({o.file : o \in of[g]}) > 1},
       extra |-> MapThenSumSet(LAMBDA g : count[g] - 1, repeated),
       canonical |-> [g \in repeated |-> <<canonical(g).file, canonical(g).row>>],
       multiplicity |-> [n \in {count[g] : g \in groups} |->
                           Cardinality({g \in groups : count[g] = n})]]

GroupKinds == {"tweet_id", "composite", "user_timestamp", "full_row"}
DedupReport(d, tables) ==
  [rows |-> d.rows, byFile |-> d.byFile, bySnapshot |-> d.bySnapshot,
   groups |-> [k \in GroupKinds |-> ClassifyGroups(tables.occurrences, k)],
   users |-> [n \in {tables.users[u] : u \in DOMAIN tables.users} |->
                Cardinality({u \in DOMAIN tables.users : tables.users[u] = n})]]

\* the length of a rank: the first at which the running total passes it
LengthAt(counts, rank) ==
  Min({l \in DOMAIN counts : MapThenSumSet(LAMBDA k : counts[k],
                                           {k \in DOMAIN counts : k <= l}) > rank})

\* lower and upper length, and how far between them, in units of 1 / q[2]
CounterQuantile(counts, q) ==
  LET position == (MapThenSumSet(LAMBDA k : counts[k], DOMAIN counts) - 1) * q[1]
      low      == position \div q[2]
      high     == IF position % q[2] = 0 THEN low ELSE low + 1
  IN  <<LengthAt(counts, low), LengthAt(counts, high), position % q[2]>>

Summary(counts) ==
  IF DOMAIN counts = {} THEN << >>
  ELSE <<[q \in Quantiles |-> CounterQuantile(counts, q)], Max(DOMAIN counts)>>

\* the sizes counted under a key, which is a counter of sizes
SizesUnder(counter, key) ==
  LET keys == {k \in DOMAIN counter : Front(k) = key}
  IN  [size \in {Last(k) : k \in keys} |-> counter[Append(key, size)]]

TextReport(x) ==
  LET Summaries(counter) == [key \in {Front(k) : k \in DOMAIN counter} |->
                               Summary(SizesUnder(counter, key))]
  IN  [rows |-> x.rows, quality |-> x.quality, perDataset |-> Summaries(x.chars),
       perSnapshot |-> Summaries(x.snapshots), perRelation |-> Summaries(x.relations),
       examples |-> [d \in DOMAIN x.examples |-> Range(x.examples[d])]]

NodesAt(pairs, s) == {p[2] : p \in {n \in pairs : n[1] = s}}

CoverageReport(v) ==
  LET edges(s, rel) == CountOf(<<s, rel>>, v.edges)
  IN  [rows |-> v.rows, fates |-> v.fates,
       perSnapshot |-> [s \in Quarters |->
         [structureOnly |-> Cardinality(NodesAt(v.struct, s) \ NodesAt(v.text, s)),
          textOnly |-> Cardinality(NodesAt(v.text, s) \ NodesAt(v.struct, s)),
          both |-> Cardinality(NodesAt(v.struct, s) \cap NodesAt(v.text, s)),
          active |-> Cardinality(NodesAt(v.active, s)),
          edges |-> [rel \in Relations |-> edges(s, rel)],
          withText |-> CountOf(<<s, TRUE>>, v.available),
          mostTexts |-> Max({0} \cup {v.nodeTexts[n] : n \in {k \in DOMAIN v.nodeTexts :
                                                               k[1] = s}})]],
       empty |-> {s \in Quarters : /\ \A rel \in Relations : edges(s, rel) = 0
                                   /\ NodesAt(v.struct \cup v.text, s) = {}},
       relationEmpty |-> [rel \in Relations |-> {s \in Quarters : edges(s, rel) = 0}]]

ReportsOf(m) == [calendar |-> CalendarReport(m.acc.calendar),
                 dedup |-> DedupReport(m.acc.dedup, m.tables),
                 text |-> TextReport(m.acc.text), coverage |-> CoverageReport(m.acc.coverage)]

-----------------------------------------------------------------------------
(***************************************************************************)
(* Sessions.  A chunk ends with the row that fills it.                     *)
(***************************************************************************)
NoReports == [sealed |-> FALSE]
Fresh == [book |-> 1, row |-> 0, acc |-> NothingObserved, tables |-> EmptyTables]

Init ==
  /\ books \in Inputs /\ pc = "down" /\ mem = Fresh /\ reports = NoReports
  /\ db = [Fresh EXCEPT !.acc = ToState(@)]

Open ==
  /\ pc = "down" /\ pc' = "run"
  /\ mem' = [db EXCEPT !.acc = FromState(@)]
  /\ UNCHANGED <<books, db, reports>>

ChunkEnd ==
  LET book == books[mem.book]
  IN  Min({i \in mem.row + 1 .. Len(book.rows) :
             Len(Records(book, mem.row, i)) >= ChunkSize} \cup {Len(book.rows)})

Consumed ==
  LET book == books[mem.book]
      m == FoldLeft(Observe, mem, Records(book, mem.row, ChunkEnd))
  IN  IF ChunkEnd = Len(book.rows) THEN [m EXCEPT !.book = @ + 1, !.row = 0]
                                   ELSE [m EXCEPT !.row = ChunkEnd]

\* one transaction: states, tables and position
CommitChunk ==
  /\ pc = "run" /\ mem.book <= Len(books)
  /\ mem' = Consumed /\ db' = [mem' EXCEPT !.acc = ToState(@)]
  /\ UNCHANGED <<books, pc, reports>>

\* Mutant of Lost: the dedup rows are in the database before the commit.
LostTablesKept ==
  /\ pc = "run" /\ mem.book <= Len(books)
  /\ pc' = "down" /\ mem' = Fresh
  /\ db' = [db EXCEPT !.tables = Consumed.tables]
  /\ UNCHANGED <<books, reports>>

\* the commit fails or the process is killed: SQLite rolls back
Lost ==
  /\ pc = "run" /\ pc' = "down" /\ mem' = Fresh
  /\ UNCHANGED <<books, db, reports>>

Seal ==
  /\ pc = "run" /\ mem.book > Len(books)
  /\ pc' = "sealed" /\ reports' = ReportsOf(mem)
  /\ UNCHANGED <<books, db, mem>>

Next == Open \/ CommitChunk \/ Lost \/ Seal

Spec == Init /\ [][Next]_vars

-----------------------------------------------------------------------------
(***************************************************************************)
(* The reports by definition, over all records of the workbooks at once.   *)
(***************************************************************************)
AllRecords == FlattenSeq([b \in DOMAIN books |-> Records(books[b], 0, Len(books[b].rows))])

Which(all, P(_)) == {i \in DOMAIN all : P(all[i])}
Number(all, P(_)) == Cardinality(Which(all, P))

RowsExact(rows, all, ok(_)) ==
  /\ rows.inspected = Len(all) /\ rows.accepted = Number(all, ok)
  /\ rows.accepted + rows.rejected = rows.inspected
  /\ rows.files = {all[i].file : i \in DOMAIN all}

CalendarExact(rep, all) ==
  LET In(s)    == Which(all, LAMBDA r : Label(r) = s)
      instants == {Classify(all[i].time).at : i \in Which(all, LAMBDA r : Parsed(Classify(r.time)))}
      busy     == {s \in Quarters : In(s) # {}}
  IN  /\ RowsExact(rep.rows, all, LAMBDA r : Label(r) # NoQuarter)
      /\ \A i \in DOMAIN all :
           LET reason == Classify(all[i].time).reason IN
           CountOf(reason, rep.reasons) = Number(all, LAMBDA r : Classify(r.time).reason = reason)
      /\ rep.instants = {t \in instants : (\A u \in instants : t <= u) \/ (\A u \in instants : t >= u)}
      /\ \A s \in Quarters, d \in {"A", "B"} :
           LET here == {i \in In(s) : all[i].dataset = d} IN
           rep.perQuarter[s][d] =
             [records |-> Cardinality(here),
              nodes |-> Cardinality({all[i].author : i \in here} \cap NodeMap)]
      /\ \A s \in Quarters :
           /\ s \in rep.empty.internal <=>
                s \notin busy /\ (\E k \in busy : k < s) /\ (\E k \in busy : k > s)
           /\ s \in rep.empty.leading <=> ~ \E k \in busy : k <= s
      /\ rep.empty.trailing =
           Quarters \ (busy \cup rep.empty.internal \cup rep.empty.leading)
      /\ \A first, last \in busy : (\A k \in busy : first <= k /\ k <= last) =>
           rep.candidate = <<first, last, last - first + 1>>
      /\ busy = {} => rep.candidate = << >>

DedupExact(rep, all) ==
  LET Kept(r) == DedupEffect(r) = "accepted" IN
  /\ RowsExact(rep.rows, all, Kept)
  /\ \A kind \in GroupKinds :
       LET keys    == [i \in Which(all, Kept) |-> {k[2] : k \in {g \in GroupKeys(all[i]) : g[1] = kind}}]
           members == [g \in UNION {keys[i] : i \in DOMAIN keys} |->
                         {i \in DOMAIN keys : g \in keys[i]}]
           groups  == rep.groups[kind]
       IN  /\ groups.groups = Cardinality(DOMAIN members)
           /\ groups.rows = Cardinality(UNION {members[g] : g \in DOMAIN members})
           /\ groups.extra = groups.rows - groups.groups
           /\ \A g \in DOMAIN members :
                LET alike == \A i, j \in members[g] : Content(all[i]) = Content(all[j])
                    twice == Cardinality(members[g]) >= 2
                IN  /\ g \in groups.concordant <=> twice /\ alike
                    /\ g \in groups.discordant <=> ~alike
                    /\ g \in groups.cross <=> \E i, j \in members[g] : all[i].file # all[j].file
                    /\ twice => \E i \in members[g] :
                         /\ groups.canonical[g] = <<all[i].file, all[i].row>>
                         /\ \A j \in members[g] :
                              \/ all[i].file < all[j].file
                              \/ all[i].file = all[j].file /\ all[i].row <= all[j].row
                    /\ groups.multiplicity[Cardinality(members[g])] =
                         Cardinality({h \in DOMAIN members :
                                        Cardinality(members[h]) = Cardinality(members[g])})
  /\ \A n \in DOMAIN rep.users :
       rep.users[n] = Cardinality({u \in {all[i].author : i \in DOMAIN all} \ {""} :
                                     Number(all, LAMBDA r : r.author = u) = n})
  /\ \A i \in DOMAIN all :
       LET f == all[i].file  e == DedupEffect(all[i]) IN
       CountOf(<<f, e>>, rep.byFile) = Number(all, LAMBDA r : r.file = f /\ DedupEffect(r) = e)
  /\ \A s \in Quarters \cup {NoQuarter} :
       CountOf(s, rep.bySnapshot) = Number(all, LAMBDA r : Kept(r) /\ Label(r) = s)

\* the size at a rank of the sorted sizes
AtRank(size, sizes, rank) ==
  /\ Cardinality({i \in DOMAIN sizes : sizes[i] < size}) <= rank
  /\ rank < Cardinality({i \in DOMAIN sizes : sizes[i] <= size})

SummaryExact(summary, sizes) ==
  LET n == Cardinality(DOMAIN sizes) IN
  /\ summary = << >> <=> n = 0
  /\ n > 0 =>
       /\ AtRank(summary[2], sizes, n - 1)
       /\ \A q \in Quantiles :
            LET low == ((n - 1) * q[1]) \div q[2]  value == summary[1][q] IN
            /\ value[3] = (n - 1) * q[1] - low * q[2]
            /\ AtRank(value[1], sizes, low)
            /\ AtRank(value[2], sizes, IF value[3] = 0 THEN low ELSE low + 1)

TextExact(rep, all) ==
  LET Kept(r)  == Quality[r.text] \in {"blank", "ok"}
      Sizes(P(_)) == [i \in Which(all, LAMBDA r : Kept(r) /\ P(r)) |-> TextSize[all[i].text]]
  IN  /\ RowsExact(rep.rows, all, Kept)
      /\ \A d \in {"A", "B"} :
           LET good  == Which(all, LAMBDA r : r.dataset = d /\ Quality[r.text] = "ok")
               first == {i \in good : Cardinality({j \in good : j < i}) < ExampleLimit}
           IN
           /\ SummaryExact(IF <<d>> \in DOMAIN rep.perDataset THEN rep.perDataset[<<d>>] ELSE << >>,
                           Sizes(LAMBDA r : r.dataset = d))
           /\ rep.examples[d] = {<<all[i].text, Label(all[i]), all[i].relation>> : i \in first}
           /\ \A k \in Range(Quality) :
                CountOf(<<d, k>>, rep.quality)
                  = Number(all, LAMBDA r : r.dataset = d /\ Quality[r.text] = k)
      /\ \A i \in Which(all, Kept) :
           LET r == all[i] IN
           /\ SummaryExact(rep.perSnapshot[<<r.dataset, Label(r)>>],
                           Sizes(LAMBDA o : o.dataset = r.dataset /\ Label(o) = Label(r)))
           /\ r.relation # "" => SummaryExact(rep.perRelation[<<r.relation>>],
                                              Sizes(LAMBDA o : o.relation = r.relation))

CoverageExact(rep, all) ==
  LET Fate(r, f) == CoverageFate(r) = f
      Kept(s, r) == Fate(r, "accepted") /\ Label(r) = s
  IN  /\ RowsExact(rep.rows, all, LAMBDA r : Fate(r, "accepted"))
      /\ \A f \in {"missing", "invalid", "outside", "loop"} :
           CountOf(f, rep.fates) = Number(all, LAMBDA r : Fate(r, f))
      /\ \A s \in Quarters :
           LET authors(P(_)) == {all[i].author : i \in Which(all, LAMBDA r : Kept(s, r) /\ P(r))}
               linked  == authors(LAMBDA r : r.dataset = "A")
               writing == authors(NodeText)
               quarter == rep.perSnapshot[s]
           IN  /\ quarter.structureOnly = Cardinality(linked \ writing)
               /\ quarter.textOnly = Cardinality(writing \ linked)
               /\ quarter.structureOnly + quarter.textOnly + quarter.both = quarter.active
               /\ quarter.withText = Number(all, LAMBDA r : Kept(s, r) /\ EdgeText(r))
               /\ \A n \in writing :
                    Number(all, LAMBDA r : Kept(s, r) /\ NodeText(r) /\ r.author = n)
                      <= quarter.mostTexts
               /\ \A rel \in Relations :
                    /\ quarter.edges[rel] = Number(all, LAMBDA r : Kept(s, r) /\ r.relation = rel)
                    /\ s \in rep.relationEmpty[rel] <=> quarter.edges[rel] = 0
               /\ s \in rep.empty <=> linked \cup writing = {}

\* Whatever chunks a run was cut into, and however many sessions were killed
\* in the middle of one, its reports are those of a run that saw all records
\* one after the other (_consume_chunk, to_state, from_state).
CutsInvisible ==
  pc = "sealed" => reports = ReportsOf(FoldLeft(Observe, Fresh, AllRecords))

\* The calendar report says of the workbooks what its definition says of all
\* records at once: every record accepted or rejected for one reason; first
\* and last instant; records and nodes of every quarter; the empty quarters
\* before, between and after the others, and the range that remains
\* (CalendarAccumulator.observe, _empty_quarters, build_report).
CalendarCounts == pc = "sealed" => CalendarExact(reports.calendar, AllRecords)

\* The dedup report: groups of repeated rows of every kind, their agreement,
\* their spread over files and their canonical row, multiplicities and
\* activity (DedupAccumulator.observe, classify_groups, build_report).
DedupCounts == pc = "sealed" => DedupExact(reports.dedup, AllRecords)

\* The text report: exact quantiles and maxima of every distribution, and the
\* first texts as examples (TextLengthAccumulator, length_stats).
TextCounts == pc = "sealed" => TextExact(reports.text, AllRecords)

\* The coverage report: nodes by structure, by text and by both, no node
\* active by the text of an edge; edges, with text or without; the empty
\* quarters (CoverageAccumulator.observe, build_report).
CoverageCounts == pc = "sealed" => CoverageExact(reports.coverage, AllRecords)

\* All of it: what a sealed run reports is what its workbooks say, whatever the
\* chunks, the failed commits and the kills were on the way.
CountsExact == CutsInvisible /\ CalendarCounts /\ DedupCounts /\ TextCounts /\ CoverageCounts
=============================================================================
