-------------------------------- MODULE Series --------------------------------
(***************************************************************************)
(* One aircraft's series in the store, the telemetry schema its frames are *)
(* read with, and the queries the console's charts are drawn from          *)
(* (core/src/store.rs, core/src/management/series.rs).  Producers append   *)
(* while sessions are saved, loaded and cleared and while a query runs: a  *)
(* query reads samples, schemas and frames under three separate locks.     *)
(*                                                                         *)
(* A timestamp and a value are natural numbers, None an absent value and   *)
(* NotFinite a NaN or an infinity.  Messages with a timestamp that is not  *)
(* finite are dropped by every append and are left out, and so are the     *)
(* receipt times, which no query reads.  A state keeps one standard field  *)
(* and its propulsors; the other forty standard fields are read alike.     *)
(***************************************************************************)
EXTENDS Integers, FiniteSets, FiniteSetsExt, Functions, Sequences, SequencesExt

CONSTANTS Times,        \* timestamps of messages
          States,       \* aircraft states producers send
          Spawns,       \* spawn messages producers send
          Frames,       \* telemetry frames producers send
          Recordings,   \* sessions saved by an earlier run
          Requests,     \* queries the console makes
          MinPoints,    \* MIN_MAX_POINTS, scaled down
          MaxPoints,    \* MAX_MAX_POINTS, scaled down
          MaxLimit,     \* MAX_PAGE_LIMIT, scaled down
          MaxMessages   \* bound on the messages producers send

None == -1
NotFinite == -2
NoConfig == [name |-> "", schemas |-> <<>>]
NoSeries == [states |-> <<>>, events |-> <<>>, telemetry |-> <<>>,
             config |-> NoConfig]

ASSUME SeriesAssumption ==
    /\ Times \subseteq Nat
    /\ MinPoints \in 3 .. MaxPoints /\ MaxPoints \in Nat /\ {MaxLimit, MaxMessages} \subseteq Nat
    /\ \A s \in Spawns : Len(s.initial) <= 1 /\ s.name # ""

VARIABLES
    series,     \* the aircraft's AircraftTimeSeries
    disk,       \* the saved session
    query,      \* the query in progress
    answer,     \* the answer given by the last step
    sent        \* messages stored so far, for the bound

vars == <<series, disk, query, answer, sent>>

NoQuery == [at |-> "none"]
NoAnswer == <<>>

Silent == answer' = NoAnswer

(* A producer's message is stored.                                         *)
Message ==
    /\ sent < MaxMessages
    /\ sent' = sent + 1
    /\ UNCHANGED <<disk, query>> /\ Silent

Entries(s) == Len(s.states) + Len(s.events) + Len(s.telemetry)

(* The aircraft has an entry in the store's map.                           *)
Known(s) == Entries(s) > 0

Init == /\ series = NoSeries
        /\ disk \in Recordings \cup {NoSeries}
        /\ query = NoQuery
        /\ answer = NoAnswer
        /\ sent = 0

-------------------------------------------------------------------------------
(***************************************************************************)
(* Appending keeps a list sorted by timestamp; among equal timestamps the  *)
(* order of arrival is kept.                                               *)
(***************************************************************************)
InsertFront(list, entry) ==
    SelectSeq(list, LAMBDA e : e.t < entry.t) \o <<entry>>
    \o SelectSeq(list, LAMBDA e : e.t >= entry.t)

Insert(list, entry) ==
    SelectSeq(list, LAMBDA e : e.t <= entry.t) \o <<entry>>
    \o SelectSeq(list, LAMBDA e : e.t > entry.t)

AppendState(s, t, state) ==
    [s EXCEPT !.states = Insert(@, [t |-> t, state |-> state])]

ConfigOf(spawn) == [name |-> spawn.name, schemas |-> spawn.schemas]

(* Every Spawn overwrites the aircraft's configuration.                    *)
AppendEvent(s, t, kind, config) ==
    [s EXCEPT !.events = Insert(@, [t |-> t, kind |-> kind, config |-> config]),
              !.config = IF kind = "spawn" THEN config ELSE @]

(***************************************************************************)
(* validate_telemetry_schemas: stream and field identifiers are not empty  *)
(* and unique, rates positive, value types known.                          *)
(***************************************************************************)
Identifiers(ids) == "" \notin Range(ids) /\ IsInjective(ids)

ValidSchemas(schemas) ==
    /\ Identifiers([i \in DOMAIN schemas |-> schemas[i].stream])
    /\ \A i \in DOMAIN schemas :
          /\ schemas[i].rate # 0
          /\ Identifiers([j \in DOMAIN schemas[i].fields |-> schemas[i].fields[j].id])
          /\ \A j \in DOMAIN schemas[i].fields :
                schemas[i].fields[j].type # "unspecified"

(* The fields of a stream, or none when it is not registered.              *)
FieldsOf(schemas, stream) ==
    LET at == {i \in DOMAIN schemas : schemas[i].stream = stream}
    IN {schemas[i].fields : i \in at}

(* validate_telemetry_frame: a registered stream, as many values as        *)
(* fields, and value by value the field's type.                            *)
FrameFits(schemas, frame) ==
    \E fields \in FieldsOf(schemas, frame.stream) :
        /\ Len(frame.values) = Len(fields)
        /\ \A i \in DOMAIN fields : frame.values[i].type = fields[i].type

AppendTelemetry(s, t, frame) ==
    [s EXCEPT !.telemetry =
        Insert(@, [t |-> t, stream |-> frame.stream, values |-> frame.values])]

-------------------------------------------------------------------------------
(***************************************************************************)
(* append_message: the messages of a producer.                             *)
(***************************************************************************)
StateUpdate(t, state) ==
    /\ Message
    /\ series' = AppendState(series, t, state)

(* A spawn with invalid schemas is dropped whole; otherwise its initial    *)
(* state is stored first.                                                  *)
Spawn(t, spawn) ==
    /\ Message
    /\ ValidSchemas(spawn.schemas)
    /\ series' = LET s == IF spawn.initial = <<>> THEN series
                          ELSE AppendState(series, t, spawn.initial[1])
                 IN AppendEvent(s, t, "spawn", ConfigOf(spawn))

(* A Despawn or a custom event, which the store keeps alike.               *)
Notice(t) ==
    /\ Message
    /\ series' = AppendEvent(series, t, "notice", NoConfig)

(* A frame of an unknown aircraft or one that does not fit is dropped.     *)
TelemetryFrame(t, frame) ==
    /\ Message
    /\ Known(series)
    /\ FrameFits(series.config.schemas, frame)
    /\ series' = AppendTelemetry(series, t, frame)

(***************************************************************************)
(* Sessions.  A save writes the three lists and, apart, the name of the    *)
(* configuration.  A load appends what it reads to an empty store: first   *)
(* every state, then every event, then every frame, then the names, and    *)
(* replaces the store only if each frame fits the schema of the spawn that *)
(* comes last in time.                                                     *)
(***************************************************************************)
Clear ==
    /\ series' = NoSeries
    /\ UNCHANGED <<disk, query, sent>> /\ Silent

Save ==
    /\ disk' = series
    /\ UNCHANGED <<series, query, sent>> /\ Silent

ReadStates(s, saved) ==
    FoldLeft(LAMBDA acc, e : AppendState(acc, e.t, e.state), s, saved.states)

ReadEvents(s, saved) ==
    FoldLeft(LAMBDA acc, e : AppendEvent(acc, e.t, e.kind, e.config),
             s, saved.events)

ReadTelemetry(s, saved) ==
    FoldLeft(LAMBDA acc, e : [acc EXCEPT !.telemetry = Insert(@, e)],
             s, saved.telemetry)

ReadMeta(s, saved) ==
    IF saved.config = NoConfig \/ ~Known(s) THEN s
    ELSE [s EXCEPT !.config.name = saved.config.name]

Loads(saved) ==
    LET schemas == ReadEvents(NoSeries, saved).config.schemas
    IN \A i \in DOMAIN saved.telemetry : FrameFits(schemas, saved.telemetry[i])

Loaded(saved) ==
    ReadMeta(ReadTelemetry(ReadEvents(ReadStates(NoSeries, saved), saved), saved),
             saved)

Load ==
    /\ series' = IF Loads(disk) THEN Loaded(disk) ELSE series
    /\ UNCHANGED <<disk, query, sent>> /\ Silent

-------------------------------------------------------------------------------
(***************************************************************************)
(* Reading a field.                                                        *)
(***************************************************************************)
Standard == {"position.x"}

(* The last propulsor with the identifier counts.                          *)
Propulsor(state, id) ==
    LET at == {i \in DOMAIN state.propulsors : state.propulsors[i].id = id}
    IN IF at = {} THEN None ELSE state.propulsors[Max(at)].rpm

Extract(state, sel) ==
    CASE sel.kind = "standard" -> state.position
      [] sel.kind = "propulsor" -> Propulsor(state, sel.id)
      [] OTHER -> None

(* Where a telemetry field stands in the frames of its stream, 0 if it is  *)
(* not registered.                                                         *)
FieldIndex(schemas, sel) ==
    LET at == {i \in UNION {DOMAIN f : f \in FieldsOf(schemas, sel.stream)} :
                  \E f \in FieldsOf(schemas, sel.stream) : f[i].id = sel.id}
    IN IF at = {} THEN 0 ELSE Min(at)

(* partition_point: how many entries at the front satisfy the test, given  *)
(* the outcome of the test for each.                                       *)
PartitionPoint(outcome) ==
    Min({n \in 0 .. Len(outcome) : n = Len(outcome) \/ ~outcome[n + 1]})

(* The entries of an inclusive time range, cut out of a sorted list.       *)
Within(list, range) ==
    SubSeq(list, PartitionPoint([i \in DOMAIN list |-> list[i].t < range[1]]) + 1,
                 PartitionPoint([i \in DOMAIN list |-> list[i].t <= range[2]]))

(* get_states_range: the same, by looking at every entry.                  *)
StatesRange(s, range) ==
    SelectSeq(s.states, LAMBDA e : range[1] <= e.t /\ e.t <= range[2])

TelemetryRange(s, range) == Within(s.telemetry, range)

Finite(points) == SelectSeq(points, LAMBDA p : p.v >= 0)

StatePoints(s, range, sel) ==
    LET samples == Within(s.states, range)
    IN Finite([i \in DOMAIN samples |->
                 [t |-> samples[i].t, v |-> Extract(samples[i].state, sel)]])

(* The values at the place the schemas give the field.                     *)
FieldPoints(s, range, sel, schemas) ==
    LET index == FieldIndex(schemas, sel)
        frames == SelectSeq(TelemetryRange(s, range),
                            LAMBDA e : /\ e.stream = sel.stream
                                       /\ index \in DOMAIN e.values)
    IN Finite([i \in DOMAIN frames |->
                 [t |-> frames[i].t, v |-> frames[i].values[index].v]])

-------------------------------------------------------------------------------
(***************************************************************************)
(* lttb: largest-triangle-three-buckets.  The answer is the list of the    *)
(* kept points' positions, counted from 0 as in the code.  Averages are    *)
(* compared after multiplying by the bucket's length.  `low` holds the     *)
(* multiples whose floor the rounded quotient `every` puts one below the   *)
(* exact one.                                                              *)
(***************************************************************************)
Abs(x) == IF x < 0 THEN -x ELSE x
Least(x, y) == IF x <= y THEN x ELSE y
Greatest(x, y) == IF x >= y THEN x ELSE y

Floor(k, n, threshold, low) ==
    LET exact == (k * (n - 2)) \div (threshold - 2)
    IN IF k \in low /\ (k * (n - 2)) % (threshold - 2) = 0 THEN exact - 1
       ELSE exact

(* The average point a bucket's triangles are closed with, as sums.        *)
Average(points, bucket, threshold, low) ==
    LET n == Len(points)
        from == Least(Floor(bucket + 1, n, threshold, low) + 1, n)
        to == Least(Floor(bucket + 2, n, threshold, low) + 1, n) - 1
        ahead == IF to < from THEN {Least(Greatest(from - 1, 0), n - 1)}
                 ELSE from .. to
    IN [size |-> Cardinality(ahead),
        t |-> MapThenSumSet(LAMBDA i : points[i + 1].t, ahead),
        v |-> MapThenSumSet(LAMBDA i : points[i + 1].v, ahead)]

(* Twice the area of the triangle of two points and an average, times the  *)
(* number of points averaged.                                              *)
Area(anchor, point, average) ==
    Abs((anchor.t * average.size - average.t) * (point.v - anchor.v)
        - (anchor.t - point.t) * (average.v - anchor.v * average.size))

(* Mutant: a bucket's range begins one position too early.                 *)
BucketEarly(bucket, n, threshold, low) ==
    LET from == Floor(bucket, n, threshold, low)
        to == Least(Floor(bucket + 1, n, threshold, low) + 1, n - 1)
    IN {Least(i, n - 2) : i \in from .. Greatest(to, from + 1) - 1}

(* The positions a bucket chooses from.                                    *)
Bucket(bucket, n, threshold, low) ==
    LET from == Floor(bucket, n, threshold, low) + 1
        to == Least(Floor(bucket + 1, n, threshold, low) + 1, n - 1)
    IN {Least(i, n - 2) : i \in from .. Greatest(to, from + 1) - 1}

(* The first position of the bucket that spans the largest triangle.       *)
Pick(points, bucket, anchor, threshold, low) ==
    LET average == Average(points, bucket, threshold, low)
        area == [i \in Bucket(bucket, Len(points), threshold, low) |->
                    Area(points[anchor + 1], points[i + 1], average)]
    IN Min({i \in DOMAIN area : \A j \in DOMAIN area : area[j] <= area[i]})

Lttb(points, threshold, low) ==
    LET n == Len(points)
    IN IF n <= threshold \/ threshold < 3 THEN [i \in 1 .. n |-> i - 1]
       ELSE Append(FoldLeft(LAMBDA kept, b :
                              Append(kept, Pick(points, b, Last(kept), threshold, low)),
                            <<0>>, [i \in 1 .. threshold - 2 |-> i - 1]),
                   n - 1)

Stats(points) ==
    LET values == {points[i].v : i \in DOMAIN points}
    IN IF points = <<>> THEN <<>>
       ELSE <<[min |-> Min(values), max |-> Max(values),
               last |-> Last(points).v, start |-> points[1].t,
               end |-> Last(points).t]>>

-------------------------------------------------------------------------------
(* validate_selector: only the paths of standard fields are looked up.     *)
ValidSelector(sel) == sel.kind = "standard" => sel.id \in Standard

(***************************************************************************)
(* query: the request is checked, then the states are read, then the       *)
(* schemas, then the frames.  The aircraft may be gone at the second read, *)
(* or replaced by another recording between any two.                       *)
(***************************************************************************)
ValidRequest(r) ==
    /\ r.max \in MinPoints .. MaxPoints
    /\ r.range[1] <= r.range[2]
    /\ ValidSelector(r.sel)

Ask(r) ==
    /\ query.at = "none"
    /\ ValidRequest(r)
    /\ Known(series)
    /\ query' = [at |-> "states", r |-> r,
                 points |-> StatePoints(series, r.range, r.sel)]
    /\ UNCHANGED <<series, disk, sent>> /\ Silent

Schemas ==
    /\ query.at = "states"
    /\ LET r == query.r
       IN query' = IF /\ Known(series)
                      /\ \/ r.sel.kind # "telemetry"
                         \/ FieldIndex(series.config.schemas, r.sel) # 0
                   THEN [at |-> "schemas", r |-> r, points |-> query.points,
                         schemas |-> series.config.schemas]
                   ELSE NoQuery
    /\ UNCHANGED <<series, disk, sent>> /\ Silent

(* The series a query answers with: what was read, the down-sampling's     *)
(* choice and the statistics.                                              *)
Reply(r, points, low) ==
    [r |-> r, full |-> points, kept |-> Lttb(points, r.max, low),
     stats |-> Stats(points)]

(* The roundings that make a difference to a series.                       *)
Roundings(points, threshold) ==
    IF Len(points) <= threshold THEN {{}} ELSE SUBSET (1 .. threshold - 1)

Read ==
    /\ query.at = "schemas"
    /\ LET r == query.r
           points == IF r.sel.kind = "telemetry"
                     THEN FieldPoints(series, r.range, r.sel, query.schemas)
                     ELSE query.points
       IN \E low \in Roundings(points, r.max) :
             answer' = <<Reply(r, points, low)>>
    /\ query' = NoQuery
    /\ UNCHANGED <<series, disk, sent>>

(* What a state has to show: a propulsor's field when any propulsor of     *)
(* that name carries it, whereas Extract reads the last one.               *)
Shows(state, sel) ==
    \/ sel.kind = "standard" /\ Extract(state, sel) # None
    \/ /\ sel.kind = "propulsor"
       /\ \E i \in DOMAIN state.propulsors :
             state.propulsors[i].id = sel.id /\ state.propulsors[i].rpm # None

(* catalog: the fields some stored state carries and every registered      *)
(* telemetry field.                                                        *)
Catalog(s, selectors) ==
    {sel \in selectors :
        \/ \E i \in DOMAIN s.states : Shows(s.states[i].state, sel)
        \/ sel.kind = "telemetry" /\ FieldIndex(s.config.schemas, sel) # 0}


(* page_slice: the entries of a range from `offset` on, at most `limit`.   *)
Page(items, offset, limit) ==
    LET start == Least(offset, Len(items))
    IN SubSeq(items, start + 1, Least(start + limit, Len(items)))

(* validated_page: the ranges and limits the page requests accept.         *)
ValidPage(range, limit) == range[1] <= range[2] /\ limit \in 1 .. MaxLimit

StatesPage(s, range, offset, limit) == Page(Within(s.states, range), offset, limit)

EventsPage(s, range, offset, limit) == Page(Within(s.events, range), offset, limit)

(* aircraft_time_range: from the ends of the three lists, none when all    *)
(* are empty.                                                              *)
TimeRange(s) ==
    LET lists == {[i \in DOMAIN l |-> l[i].t] : l \in {s.states, s.events, s.telemetry}} \ {<<>>}
    IN IF lists = {} THEN <<>>
       ELSE <<Min({Head(l) : l \in lists}), Max({Last(l) : l \in lists})>>

(* aircraft_summaries: what the list of aircraft says of this one.         *)
Summary(s) == [states |-> Len(s.states), events |-> Len(s.events),
               telemetry |-> Len(s.telemetry), range |-> TimeRange(s)]

Next == \/ \E t \in Times : \/ \E s \in States : StateUpdate(t, s)
                            \/ \E s \in Spawns : Spawn(t, s)
                            \/ Notice(t)
                            \/ \E f \in Frames : TelemetryFrame(t, f)
        \/ Clear \/ Save \/ Load
        \/ \E r \in Requests : Ask(r)
        \/ Schemas
        \/ Read

Spec == Init /\ [][Next]_vars
-------------------------------------------------------------------------------
(***************************************************************************)
(* The promises.                                                           *)
(***************************************************************************)

(* What a chart shows of a query's points (lttb, stats): the first and the *)
(* last of them, no more than asked for and no fewer than it has, each     *)
(* once and in order, and the statistics those of the full series.         *)
SampledFaithfully ==
    \A i \in DOMAIN answer :
        LET a == answer[i]
            n == Len(a.full)
        IN n > 0 =>
           /\ Len(a.kept) = Least(n, a.r.max)
           /\ a.kept[1] = 0 /\ Last(a.kept) = n - 1
           /\ \A j \in 1 .. Len(a.kept) - 1 : a.kept[j] < a.kept[j + 1]
           /\ \A j \in 1 .. n - 1 : a.full[j].t <= a.full[j + 1].t
           /\ a.stats[1].start = a.full[1].t /\ a.stats[1].end = a.full[n].t
           /\ \A j \in 1 .. n : a.full[j].v \in a.stats[1].min .. a.stats[1].max

(* Reading a range page by page yields each of its entries once, whatever  *)
(* the page size.                                                          *)
PagesCover ==
    \A r \in {q.range : q \in Requests}, limit \in 1 .. MaxMessages :
        ValidPage(r, limit) =>
            LET pages(list) == 1 .. Len(list) \div limit + 1
            IN /\ FlattenSeq([i \in pages(series.states) |->
                                StatesPage(series, r, (i - 1) * limit, limit)])
                  = StatesRange(series, r)
               /\ FlattenSeq([i \in pages(series.events) |->
                                EventsPage(series, r, (i - 1) * limit, limit)])
                  = SelectSeq(series.events, LAMBDA e : r[1] <= e.t /\ e.t <= r[2])

(* Nothing is stored outside the range that the list of aircraft gives, so *)
(* a chart opened on that range shows everything that was counted.         *)
SummaryCovers ==
    LET sum == Summary(series)
    IN Known(series) =>
          /\ Len(Within(series.states, sum.range)) = sum.states
          /\ Len(Within(series.events, sum.range)) = sum.events
          /\ Len(TelemetryRange(series, sum.range)) = sum.telemetry

(* A field with points to show is offered in the catalog.                  *)
OfferedInCatalog ==
    LET selectors == {q.sel : q \in Requests}
    IN \A sel \in selectors, r \in {q.range : q \in Requests} :
          \/ StatePoints(series, r, sel) # <<>>
          \/ /\ sel.kind = "telemetry"
             /\ FieldIndex(series.config.schemas, sel) # 0
          => sel \in Catalog(series, selectors)


(* Two spawns of the session differ in their schemas.                      *)
SchemaChanged(s) ==
    \E i, j \in DOMAIN s.events :
        /\ s.events[i].kind = "spawn" /\ s.events[j].kind = "spawn"
        /\ s.events[i].config.schemas # s.events[j].config.schemas

(* Loading a session succeeds and gives back exactly what was saved, in    *)
(* the same order, as long as the aircraft kept its schemas (save_to_disk, *)
(* load_from_disk).                                                        *)
RoundTrip == ~SchemaChanged(disk) => Loads(disk) /\ Loaded(disk) = disk
===============================================================================
