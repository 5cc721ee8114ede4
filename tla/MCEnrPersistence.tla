------------------------- MODULE MCEnrPersistence -------------------------
(***************************************************************************)
(* Two configs, two bitfield values, sequence numbers up to 3 standing for *)
(* u64::MAX, four process starts and up to two METADATA requests in       *)
(* flight: enough for a subnet update, a                                   *)
(* restart that adopts the file, one that bumps its seq, a config change   *)
(* and an overflow refusal.  CrashEnabled and FailEnabled are set by the   *)
(* config of each run.                                                     *)
(***************************************************************************)
EXTENDS EnrPersistence

(* The type invariant *)
TypeOK ==
    /\ cfg \in Configs
    /\ pc \in {"down", "refused", "bootCreate", "bootWrite", "loadMeta", "idle",
               "runCreate", "runWrite", "metaUpdate"}
    /\ enr \in EnrRecords /\ meta \in MetaRecords
    /\ ~Decodes(enrDisk) \/ enrDisk \in EnrRecords
    /\ ~Decodes(metaDisk) \/ metaDisk \in MetaRecords
    /\ published = NoRecord \/ published \in EnrRecords
    /\ advertised = NoRecord \/ advertised \in MetaRecords
    /\ enrHist \subseteq EnrRecords /\ metaHist \subseteq MetaRecords
    /\ boots \in 0..MaxBoots
    /\ view = NoRecord \/ view \in MetaRecords
    /\ requests \in 0..MaxInFlight /\ responses \subseteq MetaRecords

(* r may be served after the records of hist: its seq is above all of     *)
(* theirs, or it is the one among them with the highest seq                *)
Fresh(r, hist) == \A q \in hist : r.seq > q.seq \/ r = q

(* spec 4.3 and the ENR invariant: the sequence number of the ENR the node *)
(* serves never goes back and never names two different records, across   *)
(* update_enr_subnet and across restarts (use_or_load_enr).                *)
EnrSeqMonotonic ==
    [][published' # published => Fresh(published', enrHist)]_<<published, enrHist>>

(* The MetaData invariant: the metadata the RPC serves never goes back in  *)
(* seq and never gives one seq two bitfields, across                       *)
(* update_metadata_bitfields and restarts (peers only re-request metadata  *)
(* for a higher seq).                                                      *)
MetaSeqMonotonic ==
    [][advertised' # advertised => Fresh(advertised', metaHist)]_<<advertised, metaHist>>

(* spec 4.2.4: a peer that pings us learns our current metadata.  Once we *)
(* run, the remote peer's view of our metadata eventually equals what we  *)
(* serve (unless we change it or stop first), although responses arrive  *)
(* out of order and meta_data_response stores an older one over a newer:  *)
(* the next ping_request or pong_response sees the higher seq and asks    *)
(* again.                                                                  *)
MetadataEventuallyCurrent ==
    (pc = "idle") ~> (view = meta \/ pc # "idle")

(* compare_enr: the ENR a run starts with carries this run's config and    *)
(* the default bitfields it was built with, whether it was adopted from    *)
(* disk or built (a node does not announce subnets it has not joined).     *)
StartupEnrMatchesConfig ==
    pc \in {"bootCreate", "bootWrite", "loadMeta"} =>
        enr.cfg = cfg /\ enr.att = Default
====
