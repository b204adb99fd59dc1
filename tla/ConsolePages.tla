---------------------------- MODULE ConsolePages ----------------------------
(***************************************************************************)
(* The paged console state of src/server.rs and its reader, the console's  *)
(* loadCoherentSnapshot (pmu-control-console/app.js).  The reader fetches  *)
(* the catalog, then page after page under a cursor that names a process,  *)
(* a controller revision and an offset.  Between two pages every other     *)
(* operation of the controller may run, PDCs may come and go, and the      *)
(* process may be restarted with another catalog.  A request meets a whole *)
(* response or none: the fetch fails.                                      *)
(***************************************************************************)
EXTENDS ScenarioController, Sequences

CONSTANTS
  CONSOLE_LIFECYCLE_RECORDS_PER_PAGE,
  MAX_CONSOLE_PAGES,
  Facts,           \* what readiness, time health, fleet and endpoints may read
  Contents,        \* catalog hashes
  MaxProcess       \* bound on restarts

(* Streams and connections are numbered the way a BTreeMap compares them.  *)
ASSUME OrderAssumption == Streams \subseteq Nat /\ Connections \subseteq Nat

ASSUME PagesAssumption ==
  /\ CONSOLE_LIFECYCLE_RECORDS_PER_PAGE \in Nat \ {0}
  /\ MAX_CONSOLE_PAGES \in Nat
  /\ MAX_CONSOLE_PAGES * CONSOLE_LIFECYCLE_RECORDS_PER_PAGE >= 2 * MAX_SCENARIO_TARGETS
  /\ Facts # {} /\ Contents # {}
  /\ MaxProcess \in Nat \ {0}

VARIABLES
  process,         \* console_process_identity
  content,         \* the running catalog's hash
  facts,           \* the page contents outside the controller
  reader           \* the console's load

serverVars == <<vars, process, content, facts>>
pageVars == <<serverVars, reader>>

None == [none |-> TRUE]
NoRecords == [prepared |-> <<>>, pending |-> <<>>, active |-> <<>>]
Parts == DOMAIN NoRecords

(* loadCoherentSnapshot and collectConsolePages before their first fetch.  *)
Load(c) ==
  [at |-> "pages", catalog |-> c, cursor |-> None, baseline |-> None,
   records |-> NoRecords, pages |-> 0,
   staleCursorRetried |-> FALSE, catalogRetried |-> FALSE]
Idle == [at |-> "idle"]
Failed(kind) == [at |-> "failed", kind |-> kind]

PagesInit ==
  /\ Init
  /\ process = 1
  /\ content \in Contents
  /\ facts \in Facts
  /\ reader = Idle

-----------------------------------------------------------------------------
(* The server's half.                                                      *)

(* A BTreeMap iterates in key order: the i-th key has i - 1 keys below it. *)
(* A preparation is known by its token.                                    *)
TargetOrder(a, b) ==
  \/ a.type = "Endpoint" /\ b.type = "Pdc"
  \/ a.type = b.type /\ a.stream_id < b.stream_id
  \/ /\ a.type = "Pdc" /\ b.type = "Pdc" /\ a.stream_id = b.stream_id
     /\ a.connection_id < b.connection_id

InOrder(below) ==
  [i \in 1..Cardinality(DOMAIN below) |->
     CHOOSE k \in DOMAIN below : Cardinality(below[k]) = i - 1]
Listed(map, keys) == [i \in DOMAIN keys |-> <<keys[i], map[keys[i]]>>]
ByToken(map) ==
  Listed(map, InOrder([k \in DOMAIN map |-> {j \in DOMAIN map : j < k}]))
ByTarget(map) ==
  Listed(map, InOrder([k \in DOMAIN map |-> {j \in DOMAIN map : TargetOrder(j, k)}]))

(* What a request finds after snapshot has dropped the expired.            *)
Served ==
  [process |-> process, revision |-> revision, content |-> content, facts |-> facts,
   records |-> [prepared |-> ByToken(prepared), pending |-> ByTarget(pending),
                active |-> ByTarget(active)]]

Counts(r) == [part \in Parts |-> Len(r[part])]
Total(r) == Len(r.prepared) + Len(r.pending) + Len(r.active)

Least(a, b) == IF a < b THEN a ELSE b
SaturatingSub(a, b) == IF a < b THEN 0 ELSE a - b
SkipTake(s, skip, take) == SubSeq(s, skip + 1, Least(skip + take, Len(s)))

(* Three skip-and-take slices that together fill one page.                 *)
management_console_lifecycle_page(r, offset) ==
  LET p == Len(r.prepared)
      q == Len(r.pending)
      prepared_page ==
        SkipTake(r.prepared, Least(offset, p), CONSOLE_LIFECYCLE_RECORDS_PER_PAGE)
      left == CONSOLE_LIFECYCLE_RECORDS_PER_PAGE - Len(prepared_page)
      pending_page == SkipTake(r.pending, Least(SaturatingSub(offset, p), q), left)
      active_page == SkipTake(r.active, Least(SaturatingSub(offset, p + q), Len(r.active)),
                              left - Len(pending_page))
  IN  [prepared |-> prepared_page, pending |-> pending_page, active |-> active_page]

console_cursor(s, offset) ==
  [process |-> s.process, revision |-> s.revision, offset |-> offset]

(* Fault: only the process is compared.                                    *)
IsStale_process(s, cursor) == cursor.process # s.process

IsStale(s, cursor) == cursor.process # s.process \/ cursor.revision # s.revision

ErrorPage(code) == [error |-> code]

management_console_state_response(s, cursor) ==
  LET offset == IF cursor = None THEN 0 ELSE cursor.offset
      part == management_console_lifecycle_page(s.records, offset)
      next == offset + Total(part)
  IN  IF cursor # None /\ IsStale(s, cursor) THEN ErrorPage("stale_console_cursor")
      ELSE IF offset > Total(s.records) \/ (cursor # None /\ Total(part) = 0)
      THEN ErrorPage("invalid_console_cursor")
      ELSE [process |-> s.process, revision |-> s.revision, content |-> s.content,
            facts |-> s.facts, records |-> part, counts |-> Counts(s.records),
            next_cursor |-> IF next < Total(s.records) THEN console_cursor(s, next) ELSE None]

-----------------------------------------------------------------------------
(* The console's half.                                                     *)

(* Fault: the endpoints are left out of the comparison.                    *)
stablePageFingerprint_constant(page) == 0

stablePageFingerprint(page) == page.facts

Appended(r, page) == [part \in Parts |-> r[part] \o page.records[part]]

(* assertUniqueLifecycleRecords on what was put together.                  *)
assertUniqueLifecycleRecords(r) ==
  \A part \in Parts : IsInjective([i \in DOMAIN r[part] |-> r[part][i][1]])

(* assertTargetsMatchEndpoints: what a record is about is in the fleet.    *)
TargetOf(part, record) == IF part = "prepared" THEN record[2].target ELSE record[1]
assertTargetsMatchEndpoints(r) ==
  \A part \in Parts : \A i \in DOMAIN r[part] :
    TargetOf(part, r[part][i]).stream_id \in Streams

(* The comparisons with the first page.                                    *)
AgreesWithBaseline(load, page) ==
  load.baseline # None =>
    /\ page.process = load.baseline.process
    /\ page.revision = load.baseline.revision
    /\ stablePageFingerprint(page) = stablePageFingerprint(load.baseline)
    /\ page.counts = load.baseline.counts

(* The last page: all that was announced arrived, once.                    *)
IsWhole(load, page) ==
  LET all == Appended(load.records, page)
  IN  /\ Counts(all) = page.counts
      /\ assertUniqueLifecycleRecords(all)
      /\ assertTargetsMatchEndpoints(all)

(* A page that is not the last: its cursor moves on, and the loop has room. *)
MovesOn(load, page) ==
  /\ page.next_cursor.offset > (IF load.cursor = None THEN 0 ELSE load.cursor.offset)
  /\ load.pages + 1 < MAX_CONSOLE_PAGES

(* One turn of collectConsolePages, and what loadCoherentSnapshot makes of *)
(* an error: a stale cursor and another catalog are retried once.          *)
collectConsolePages(load, page) ==
  IF "error" \in DOMAIN page
  THEN IF page.error = "stale_console_cursor" /\ ~load.staleCursorRetried
       THEN [Load(load.catalog) EXCEPT !.staleCursorRetried = TRUE,
                                       !.catalogRetried = load.catalogRetried]
       ELSE Failed(page.error)
  ELSE IF page.content # load.catalog
  THEN IF load.catalogRetried THEN Failed("catalog_mismatch")
       ELSE [at |-> "catalog", catalogRetried |-> TRUE]
  ELSE IF \/ ~AgreesWithBaseline(load, page)
          \/ (page.next_cursor = None /\ ~IsWhole(load, page))
          \/ (page.next_cursor # None /\ ~MovesOn(load, page))
  THEN Failed("coherence")
  ELSE [load EXCEPT !.at = IF page.next_cursor = None THEN "complete" ELSE "pages",
                    !.baseline = IF @ = None THEN page ELSE @,
                    !.records = Appended(@, page),
                    !.cursor = page.next_cursor,
                    !.pages = @ + 1]

-----------------------------------------------------------------------------
(* The steps: one request each, everything else between them.              *)

refresh ==
  /\ reader.at \in {"idle", "complete", "failed"}
  /\ reader' = [at |-> "catalog", catalogRetried |-> FALSE]
  /\ UNCHANGED serverVars

fetchCatalog ==
  /\ reader.at = "catalog"
  /\ reader' = [Load(content) EXCEPT !.catalogRetried = reader.catalogRetried]
  /\ UNCHANGED serverVars

fetchConsolePage ==
  /\ reader.at = "pages"
  /\ snapshot
  /\ UNCHANGED <<process, content, facts>>
  /\ reader' = collectConsolePages(reader, management_console_state_response(Served', reader.cursor))

FetchFails ==
  /\ reader.at \in {"catalog", "pages"}
  /\ reader' = Failed("network")
  /\ UNCHANGED serverVars

ControllerCall == Next /\ UNCHANGED <<process, content, facts, reader>>

FactsChange ==
  /\ facts' \in Facts \ {facts}
  /\ UNCHANGED <<vars, process, content, reader>>

(* new_console_process_identity: the identity of a process is its own.     *)
ProcessRestart ==
  /\ process < MaxProcess
  /\ process' = process + 1
  /\ content' \in Contents
  /\ facts' \in Facts
  /\ prepared' = EmptyMap /\ prepared_targets' = EmptyMap
  /\ pending' = EmptyMap /\ active' = EmptyMap
  /\ current_sample_index' = NoSample
  /\ next_token' = 1
  /\ revision' = 0
  /\ reply' = Reply("new", "Ok")
  /\ UNCHANGED <<now, reader>>

PagesNext ==
  \/ refresh
  \/ fetchCatalog
  \/ fetchConsolePage
  \/ FetchFails
  \/ ControllerCall
  \/ FactsChange
  \/ ProcessRestart

PagesSpec == PagesInit /\ [][PagesNext]_pageVars

-----------------------------------------------------------------------------
(* Properties.                                                             *)

(* When the console accepts a snapshot, it is one state of the server: the *)
(* records of all pages together are the records the server has at that    *)
(* moment, and the rest of the first page, its catalog included, still     *)
(* holds; nothing of another revision, process or moment is mixed in.      *)
SnapshotIsOneState ==
  [][reader'.at = "complete" /\ reader.at = "pages" =>
       /\ reader'.records = Served'.records
       /\ reader'.baseline.facts = facts'
       /\ reader'.baseline.process = process'
       /\ reader'.catalog = content']_pageVars

(* The console gives a load up as incoherent only when the endpoints or    *)
(* the process state around the controller really changed under it: the    *)
(* server's cursors alone turn every change of the controller into a stale *)
(* answer, pages never overlap, skip or miscount, and the page limit is    *)
(* never what stops a load.                                                *)
IncoherenceIsReal ==
  [][reader'.at = "failed" /\ reader'.kind = "coherence" /\ reader.at = "pages" =>
       reader.baseline # None /\ reader.baseline.facts # facts']_pageVars

=============================================================================
