--------------------------- MODULE EnrPersistence ---------------------------
(***************************************************************************)
(* The local ENR file and the local metadata across process restarts,      *)
(* crashes and failed writes.                                              *)
(*                                                                         *)
(*  - build_or_load_enr / use_or_load_enr / compare_enr / save_enr_to_disk *)
(*    (src/discovery/enr.rs), run by Network::new at startup;             *)
(*  - update_enr_subnet and update_metadata_bitfields (src/service/mod.rs) *)
(*    at run time.                                                         *)
(*                                                                         *)
(* An ENR is abstracted to the fields compare_enr reads: cfg (fork digest, *)
(* ports and addresses, all fixed by the NetworkConfig of a run), att (the *)
(* attnets/syncnets bitfields) and its seq.  The node id is the same in    *)
(* every run (the same key); a different key is a new node.                *)
(*                                                                         *)
(* The handlers are split only where the process can die between two     *)
(* effects another task observes: the truncation of File::create before   *)
(* write_all, and the ENR that discovery (its own task) serves before     *)
(* update_enr_subnet saves it.  update_metadata_bitfields runs to its end  *)
(* on the service task, so it is one action.  No other action interleaves *)
(* with the steps of one handler except Crash.                             *)
(***************************************************************************)
EXTENDS Naturals, FiniteSets

CONSTANTS
    Configs,        \* NetworkConfigs an operator may start the node with
    AttValues,      \* attnets/syncnets bitfield values
    Default,        \* the default (all zero) bitfield, an element of AttValues
    MaxSeq,         \* stands for u64::MAX, the largest sequence number
    MaxBoots,       \* bound on the number of process starts
    CrashEnabled,   \* whether the process may die between any two steps
    FailEnabled,    \* whether file writes may fail
    PeerEnabled,    \* whether a remote peer pings us and fetches our metadata
    MaxInFlight,    \* bound on the peer's METADATA requests in flight
    NoRecord,       \* model value: no record published yet
    NoFile,         \* model value: the file does not exist
    EmptyFile       \* model value: the file exists and does not decode

ASSUME Default \in AttValues /\ MaxSeq \in Nat \ {0} /\ MaxBoots \in Nat

VARIABLES
    cfg,        \* the NetworkConfig of the current (or last) run
    pc,         \* where the process is
    enr,        \* the in-memory local ENR (discv5's local_enr)
    meta,       \* network_globals.local_metadata
    enrDisk,    \* {network_dir}/enr.dat
    metaDisk,   \* the persisted metadata file
    published,  \* the ENR discovery serves now, or last served
    enrHist,    \* every ENR discovery ever served
    advertised, \* the metadata (seq and bitfields) the RPC serves
    metaHist,   \* every metadata ever served
    boots,      \* process starts so far
    view,       \* the metadata the remote peer's PeerDB holds for us
    requests,   \* the peer's METADATA requests not yet answered
    responses   \* our METADATA responses not yet delivered to the peer

vars == <<cfg, pc, enr, meta, enrDisk, metaDisk, published, enrHist,
          advertised, metaHist, boots, view, requests, responses>>
peerVars == <<view, requests, responses>>
vars0 == <<cfg, pc, enr, meta, enrDisk, metaDisk, published, enrHist,
           advertised, metaHist, boots>>

Seqs == 0..MaxSeq
EnrRecords == [cfg: Configs, att: AttValues, seq: Seqs]
MetaRecords == [att: AttValues, seq: Seqs]
Decodes(file) == file \notin {NoFile, EmptyFile}

\* The sequence number of a record the enr crate builds
FRESH_ENR_SEQ == 1

(* build_enr: the fields of this run's config, default bitfields, the      *)
(* builder's sequence number                                               *)
BuildEnr(c) == [cfg |-> c, att |-> Default, seq |-> FRESH_ENR_SEQ]

(* Mutant: compare_enr without the bitfield comparisons *)
CompareEnrNoBitfields(local, disk) == local.cfg = disk.cfg

(* compare_enr: the disk ENR is used when every compared field matches    *)
CompareEnr(local, disk) == local.cfg = disk.cfg /\ local.att = disk.att

(* Mutants: the seq of the disk ENR kept, and u64 addition unchecked *)
NextEnrSeqKept(disk) == disk.seq
SeqOverflowsNever(disk) == FALSE

(* The seq taken on a mismatch, and checked_add's overflow *)
NextEnrSeq(disk) == disk.seq + 1
SeqOverflows(disk) == disk.seq = MaxSeq

(* save_enr_to_disk, first half: File::create fails (nothing changes) or  *)
(* truncates the file                                                      *)
SaveEnrCreate(write, next) ==
    \/ FailEnabled /\ UNCHANGED enrDisk /\ pc' = next
    \/ enrDisk' = EmptyFile /\ pc' = write

(* save_enr_to_disk, second half: write_all writes the base64 record or    *)
(* fails and leaves the truncated file                                     *)
SaveEnrWrite(next) ==
    /\ \/ enrDisk' = enr
       \/ FailEnabled /\ UNCHANGED enrDisk
    /\ pc' = next

(* Discovery serves r: an ENR published once is in the history            *)
PublishEnr(r) == published' = r /\ enrHist' = enrHist \cup {r}
AdvertiseMeta(m) == advertised' = m /\ metaHist' = metaHist \cup {m}
-----------------------------------------------------------------------------
Init ==
    /\ cfg \in Configs
    /\ pc = "down"
    /\ enr = BuildEnr(cfg)
    /\ meta = [att |-> Default, seq |-> 0]
    /\ enrDisk = NoFile /\ metaDisk = NoFile
    /\ published = NoRecord /\ enrHist = {}
    /\ advertised = NoRecord /\ metaHist = {}
    /\ boots = 0
    /\ view = NoRecord /\ requests = 0 /\ responses = {}

(* build_or_load_enr at startup, with a config the operator picks.  The    *)
(* disk ENR is adopted without a save when compare_enr holds; on a        *)
(* mismatch its seq + 1 is taken, and checked_add refuses startup at       *)
(* u64::MAX; a missing or undecodable file leaves the built ENR.  Every    *)
(* path but adoption and refusal goes on to save_enr_to_disk.              *)
UseOrLoadEnr ==
    /\ pc = "down" /\ boots < MaxBoots
    /\ \E c \in Configs :
         LET local == BuildEnr(c) IN
         /\ cfg' = c
         /\ boots' = boots + 1
         /\ IF Decodes(enrDisk)
            THEN IF CompareEnr(local, enrDisk)
                 THEN enr' = enrDisk /\ pc' = "loadMeta"
                 ELSE IF SeqOverflows(enrDisk)
                      THEN pc' = "refused" /\ UNCHANGED enr
                      ELSE enr' = [local EXCEPT !.seq = NextEnrSeq(enrDisk)]
                           /\ pc' = "bootCreate"
            ELSE enr' = local /\ pc' = "bootCreate"
    /\ UNCHANGED <<meta, enrDisk, metaDisk, published, enrHist, advertised, metaHist>>
    /\ UNCHANGED peerVars

BootSaveCreate ==
    /\ pc = "bootCreate"
    /\ SaveEnrCreate("bootWrite", "loadMeta")
    /\ UNCHANGED <<cfg, enr, meta, metaDisk, published, enrHist, advertised, metaHist, boots>>
    /\ UNCHANGED peerVars

BootSaveWrite ==
    /\ pc = "bootWrite"
    /\ SaveEnrWrite("loadMeta")
    /\ UNCHANGED <<cfg, enr, meta, metaDisk, published, enrHist, advertised, metaHist, boots>>
    /\ UNCHANGED peerVars

(* utils::load_or_build_metadata (not in this repository): the persisted   *)
(* metadata, or a fresh one at seq 0 when there is none or it does not     *)
(* decode.  Network::new then hands the seq to the RPC and starts          *)
(* discovery with the local ENR.                                           *)
LoadMetadata ==
    /\ pc = "loadMeta"
    /\ LET m == IF Decodes(metaDisk) THEN metaDisk
                ELSE [att |-> Default, seq |-> 0]
       IN  meta' = m /\ AdvertiseMeta(m)
    /\ PublishEnr(enr)
    /\ pc' = "idle"
    /\ UNCHANGED <<cfg, enr, enrDisk, metaDisk, boots>>
    /\ UNCHANGED peerVars
-----------------------------------------------------------------------------
(* update_enr_subnet, first call: discovery's update_enr_bitfield (not in  *)
(* this repository) sets the bitfield, which bumps the ENR seq, serves the *)
(* new record and saves it.  On its error the code only logs crit and      *)
(* goes on to update_metadata_bitfields with the ENR unchanged.            *)
UpdateEnrSubnet ==
    /\ pc = "idle" /\ enr.seq < MaxSeq /\ meta.seq < MaxSeq
    /\ \E v \in AttValues \ {enr.att} :
         \/ LET r == [enr EXCEPT !.att = v, !.seq = @ + 1]
            IN  enr' = r /\ PublishEnr(r) /\ pc' = "runCreate"
         \/ FailEnabled /\ pc' = "metaUpdate"
            /\ UNCHANGED <<enr, published, enrHist>>
    /\ UNCHANGED <<cfg, meta, enrDisk, metaDisk, advertised, metaHist, boots>>
    /\ UNCHANGED peerVars

RunSaveCreate ==
    /\ pc = "runCreate"
    /\ SaveEnrCreate("runWrite", "metaUpdate")
    /\ UNCHANGED <<cfg, enr, meta, metaDisk, published, enrHist, advertised, metaHist, boots>>
    /\ UNCHANGED peerVars

RunSaveWrite ==
    /\ pc = "runWrite"
    /\ SaveEnrWrite("metaUpdate")
    /\ UNCHANGED <<cfg, enr, meta, metaDisk, published, enrHist, advertised, metaHist, boots>>
    /\ UNCHANGED peerVars

(* utils::save_metadata_to_disk (not in this repository): writes the       *)
(* metadata file; an error is only logged                                  *)
SaveMetadataToDisk(m) ==
    \/ metaDisk' = m
    \/ FailEnabled /\ UNCHANGED metaDisk

(* Mutant: the metadata rebuilt without seq + 1 *)
UpdateMetadataBitfieldsNoBump ==
    /\ pc = "metaUpdate"
    /\ LET m == [att |-> enr.att, seq |-> meta.seq]
       IN  /\ meta' = m /\ AdvertiseMeta(m)
           /\ SaveMetadataToDisk(m)
    /\ pc' = "idle"
    /\ UNCHANGED <<cfg, enr, enrDisk, published, enrHist, boots>>
    /\ UNCHANGED peerVars

(* update_metadata_bitfields, one synchronous handler: seq + 1 and the     *)
(* bitfields of the local ENR, written under the lock (served from then    *)
(* on), update_seq_number, then save_metadata_to_disk                      *)
UpdateMetadataBitfields ==
    /\ pc = "metaUpdate"
    /\ LET m == [att |-> enr.att, seq |-> meta.seq + 1]
       IN  /\ meta' = m /\ AdvertiseMeta(m)
           /\ SaveMetadataToDisk(m)
    /\ pc' = "idle"
    /\ UNCHANGED <<cfg, enr, enrDisk, published, enrHist, boots>>
    /\ UNCHANGED peerVars
-----------------------------------------------------------------------------
(* The process exits: the connection to the peer closes with the requests *)
(* and responses on it; the peer keeps our entry, with its metadata        *)
ConnectionLost == requests' = 0 /\ responses' = {} /\ UNCHANGED view

(* A clean shutdown between two handlers *)
Stop ==
    /\ pc = "idle" /\ pc' = "down"
    /\ UNCHANGED <<cfg, enr, meta, enrDisk, metaDisk, published, enrHist, advertised, metaHist, boots>>
    /\ ConnectionLost

(* The process dies at any point: only the files survive *)
Crash ==
    /\ CrashEnabled
    /\ pc \notin {"down", "refused"} /\ pc' = "down"
    /\ UNCHANGED <<cfg, enr, meta, enrDisk, metaDisk, published, enrHist, advertised, metaHist, boots>>
    /\ ConnectionLost

-----------------------------------------------------------------------------
(***************************************************************************)
(* A remote peer running the same code (src/peer_manager/mod.rs,           *)
(* src/service/mod.rs), connected to us while our swarm runs.  It learns   *)
(* our RPC seq (the seq of our metadata) from the Ping we send it          *)
(* (ping_request) and from the Pong we answer its Ping with                *)
(* (pong_response); a PeerManagerEvent::MetaData it pushes becomes a       *)
(* METADATA request, which we answer with our local_metadata at that       *)
(* time.  Responses travel on their own substreams and arrive in any       *)
(* order.  Our metadata carries our own custody group count, so the        *)
(* peer's custody-subnet check in meta_data_response always succeeds.      *)
(***************************************************************************)
\* Our swarm runs (Network::new has returned) and the process is alive
Up == pc \in {"idle", "runCreate", "runWrite", "metaUpdate"}

(* Mutant: metadata requested only when none is known *)
NeedsMetaDataFirstOnly(known, seq) == known = NoRecord

(* ping_request / pong_response: the peer asks for our metadata when it    *)
(* knows none or knows an older seq                                        *)
NeedsMetaData(known, seq) == IF known = NoRecord THEN TRUE ELSE known.seq < seq

(* The peer pushes MetaData and its service sends the request *)
RequestMetaData ==
    /\ PeerEnabled /\ Up /\ requests < MaxInFlight
    /\ NeedsMetaData(view, meta.seq)
    /\ requests' = requests + 1
    /\ UNCHANGED <<vars0, view, responses>>

(* Our Ping reaches the peer: ping_request *)
PingRequest == RequestMetaData

(* The peer's Ping is answered with our seq: pong_response *)
PongResponse == RequestMetaData

(* inject_rpc_event, RequestType::MetaData: answer with local_metadata *)
AnswerMetaData ==
    /\ PeerEnabled /\ Up /\ requests > 0
    /\ requests' = requests - 1
    /\ responses' = responses \cup {meta}
    /\ UNCHANGED <<vars0, view>>

(* The peer's meta_data_response: the received metadata is stored whether *)
(* or not its seq is newer than the known one                              *)
MetaDataResponse(r) ==
    /\ PeerEnabled /\ r \in responses
    /\ view' = r
    /\ responses' = responses \ {r}
    /\ UNCHANGED <<vars0, requests>>

(* While we are down the peer's shrink_to_fit may drop our disconnected    *)
(* entry, metadata included                                                *)
PeerForgets ==
    /\ PeerEnabled /\ ~Up /\ view # NoRecord
    /\ view' = NoRecord
    /\ UNCHANGED <<vars0, requests, responses>>
-----------------------------------------------------------------------------
Next ==
    \/ UseOrLoadEnr \/ BootSaveCreate \/ BootSaveWrite \/ LoadMetadata
    \/ UpdateEnrSubnet \/ RunSaveCreate \/ RunSaveWrite
    \/ UpdateMetadataBitfields
    \/ Stop \/ Crash
    \/ PingRequest \/ PongResponse \/ AnswerMetaData \/ PeerForgets
    \/ \E r \in responses : MetaDataResponse(r)

Spec == Init /\ [][Next]_vars

(* The peer's pings are timer driven (inbound/outbound_ping_peers), the    *)
(* swarm keeps answering requests and delivering responses                 *)
FairSpec ==
    /\ Spec
    /\ WF_vars(PingRequest) /\ WF_vars(PongResponse) /\ WF_vars(AnswerMetaData)
    /\ WF_vars(\E r \in responses : MetaDataResponse(r))
====
