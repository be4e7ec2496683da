------------------------------ MODULE Datasets ------------------------------
(***************************************************************************)
(* The usage of one account as several sources tell it (UsageDataset):     *)
(* what one collection gathers is merged when it is stored (merge_datasets *)
(* in usage-daemon/src/polling.rs), and what the local logs said since is  *)
(* laid over it whenever it is read (apply_local_usage_overlays in         *)
(* storage/usage.rs).  A record of provenance claims, for each source, the *)
(* items it contributed, so that a later reading can replace just these.   *)
(***************************************************************************)
EXTENDS Integers, FiniteSets

CONSTANT MaxReadings   \* bound on the readings of all sources

ASSUME DatasetsAssumption == MaxReadings \in Nat

VARIABLES
  readings,  \* the readings made so far, which are numbered in time
  gathered,  \* by the collection that is under way, from each source
  snapshot,  \* as it is stored
  overlay    \* the last reading of the local logs by themselves

datasetVars == <<readings, gathered, snapshot, overlay>>

(* No provider has more than one local source; that of Cursor's events is  *)
(* one that is only collected, and never read by itself.                   *)
Remote == "provider"
Sources == {Remote, "logs", "events"}
DetailKeys == {"cost", "tokens"}    \* the other items are windows
(* What a source may state: the sources overlap, and state not always all. *)
Statements(source) ==
  CASE source = Remote -> {{"session"}, {"session", "cost"}}
    [] source = "logs" -> {{}, {"tokens"}, {"tokens", "cost"}, {"cost", "block"}}
    [] source = "events" -> {{"cost"}, {"session", "tokens"}}

Unread == [at |-> 0, items |-> {}]
StatedNow(items) == [at |-> readings + 1, items |-> items]
ItemsOf(source, dataset) == [i \in dataset.items |-> [from |-> source, at |-> dataset.at]]
Claim(source, id, items) == [source |-> source, id |-> id, items |-> items]

(* Snapshots that an earlier version stored claim nothing, or do so for a  *)
(* kind of source without its id.                                          *)
NoId == "none"
NoUsage == [at |-> 0, items |-> <<>>, claims |-> {}]
OfEarlierVersion(claims) ==
  [at |-> 0, items |-> ItemsOf("logs", [at |-> 0, items |-> {"tokens", "cost"}]), claims |-> claims]
DatasetsInit ==
  /\ snapshot \in {NoUsage, OfEarlierVersion({}), OfEarlierVersion({Claim("logs", NoId, {"tokens", "cost"})})}
  /\ readings = 0 /\ overlay = Unread /\ gathered = [s \in Sources |-> Unread]
-----------------------------------------------------------------------------
(* fill_missing_from, and the same for windows: the first to state an item *)
(* contributes it.                                                         *)
Fill(usage, source, dataset) ==
  LET missing == dataset.items \ DOMAIN usage.items
      stated  == ItemsOf(source, dataset)
  IN [usage EXCEPT !.items = [i \in DOMAIN @ \union missing |-> IF i \in missing THEN stated[i] ELSE @[i]],
                   !.claims = @ \union {Claim(source, source, missing)}]

(* merge_datasets: the authoritative one first; dated by the latest.       *)
Later(a, b) == IF a > b THEN a ELSE b
Merge(datasets) ==
  LET With(usage, s) == IF datasets[s] = Unread THEN usage
                        ELSE [Fill(usage, s, datasets[s]) EXCEPT !.at = Later(@, datasets[s].at)]
  IN With(With(With(NoUsage, Remote), "logs"), "events")

(* local_provenance_matches: by the id, or by the kind if one has none.    *)
OfLogs(claim) == claim.source = "logs" /\ claim.id \in {"logs", NoId}

Claimed(claims) == UNION {c.items : c \in claims}

(* apply_local_usage_overlays: the overlay replaces what its source had    *)
(* contributed, unless that was collected no earlier, and of the detail    *)
(* also the keys that nobody claims.                                       *)
KeepsSuperseded(claims) == {}
Superseded(claims) == Claimed({c \in claims : OfLogs(c)})

Overlaid(usage) ==
  LET known == \E c \in usage.claims : OfLogs(c)
      others == {c \in usage.claims : ~OfLogs(c)}
      unclaimed == IF known THEN {} ELSE (overlay.items \intersect DetailKeys) \ Claimed(others)
      kept == DOMAIN usage.items \ (Superseded(usage.claims) \union unclaimed)
  IN IF overlay = Unread \/ (known /\ usage.at >= overlay.at) THEN usage
     ELSE Fill([usage EXCEPT !.items = [i \in kept |-> @[i]], !.claims = others], "logs", overlay)

(* latest_usage_from_conn.                                                 *)
Visible == Overlaid(snapshot)
-----------------------------------------------------------------------------
(* collect_usage of a provider asks each source it has, in any order.      *)
GatherDataset(source, items) ==
  /\ readings < MaxReadings /\ gathered[source] = Unread
  /\ readings' = readings + 1 /\ gathered' = [gathered EXCEPT ![source] = StatedNow(items)]
  /\ UNCHANGED <<snapshot, overlay>>

(* handle_collection_outcome, record_collection: without the provider's    *)
(* own answer, what the others said is still stored.                       *)
StoreMerged ==
  /\ \E s \in Sources : gathered[s] # Unread
  /\ snapshot' = Merge(gathered) /\ gathered' = [s \in Sources |-> Unread]
  /\ UNCHANGED <<readings, overlay>>

(* refresh_local: another file was written, and the logs are read again.   *)
ReadOverlay(items) ==
  /\ readings < MaxReadings /\ readings' = readings + 1 /\ overlay' = StatedNow(items)
  /\ UNCHANGED <<gathered, snapshot>>

(* reconcile_local_usage_overlays: there are no logs any more.             *)
DropOverlay == overlay # Unread /\ overlay' = Unread /\ UNCHANGED <<readings, gathered, snapshot>>

DatasetsNext ==
  \/ \E s \in Sources : \E items \in Statements(s) : GatherDataset(s, items)
  \/ StoreMerged
  \/ \E items \in Statements("logs") : ReadOverlay(items)
  \/ DropOverlay
-----------------------------------------------------------------------------
(* Each item that is shown is claimed by the source that it came from, and *)
(* by no other, so that a later reading replaces it and nothing else; what *)
(* an earlier version stored unclaimed is the exception (merge_datasets).  *)
ClaimsExact ==
  /\ Claimed(Visible.claims) \subseteq DOMAIN Visible.items
  /\ \A i \in DOMAIN Visible.items : Visible.items[i].at > 0 =>
       \E c \in Visible.claims : i \in c.items /\ c.source = Visible.items[i].from
  /\ \A c, d \in Visible.claims : c # d => c.items \intersect d.items = {}

(* What other sources said is never displaced by the logs.                 *)
OthersFirst ==
  \A i \in DOMAIN snapshot.items :
    snapshot.items[i].from # "logs" => i \in DOMAIN Visible.items /\ Visible.items[i] = snapshot.items[i]

(* What is shown of the logs is of one reading of them, never of two: the  *)
(* overlay or one collected no earlier; and all that an overlay newer than *)
(* the collection states is shown, of it or of another source, and nothing *)
(* else of the logs, whatever was stored of them before.                   *)
LogsAtOnce ==
  LET ofLogs == {i \in DOMAIN Visible.items : Visible.items[i].from = "logs"}
      times == {Visible.items[i].at : i \in ofLogs} \ {0}
  IN /\ Cardinality(times) <= 1
     /\ overlay # Unread => times \subseteq {overlay.at} \/ snapshot.at >= overlay.at
     /\ overlay.at > snapshot.at =>
          /\ overlay.items \subseteq DOMAIN Visible.items
          /\ \A i \in ofLogs : Visible.items[i].at > 0 => i \in overlay.items

SourcesTold == ClaimsExact /\ OthersFirst /\ LogsAtOnce
=============================================================================
