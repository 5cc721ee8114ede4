------------------------------ MODULE RpcErrors ------------------------------
(***************************************************************************)
(* The match of PeerManager::handle_rpc_error (src/peer_manager/mod.rs)    *)
(* from an RPCError, the protocol of the failed stream and its direction   *)
(* to the PeerAction reported, or NoReport where the code returns without  *)
(* a report.  An error is a record [kind, code]: code is the               *)
(* RpcErrorResponse of an ErrorResponse and "none" for the other kinds.    *)
(***************************************************************************)

RpcProtocols ==
    {"Status", "Goodbye", "BlocksByRange", "BlocksByRoot", "BlobsByRange",
     "BlobsByRoot", "DataColumnsByRoot", "DataColumnsByRange", "Ping",
     "MetaData", "LightClientBootstrap", "LightClientOptimisticUpdate",
     "LightClientFinalityUpdate", "LightClientUpdatesByRange"}

LightClientProtocols ==
    {"LightClientBootstrap", "LightClientOptimisticUpdate",
     "LightClientFinalityUpdate", "LightClientUpdatesByRange"}

\* The protocols that fetch blocks, blobs or columns
DataProtocols ==
    {"BlocksByRange", "BlocksByRoot", "BlobsByRange", "BlobsByRoot",
     "DataColumnsByRoot", "DataColumnsByRange"}

ErrorKinds ==
    {"IncompleteStream", "InternalError", "HandlerRejected", "InvalidData",
     "IoError", "ErrorResponse", "SszReadError", "SszWriteError",
     "UnsupportedProtocol", "StreamTimeout", "NegotiationTimeout",
     "Disconnected"}

ResponseCodes ==
    {"Unknown", "ResourceUnavailable", "ServerError", "InvalidRequest",
     "RateLimited", "BlobsNotFoundForBlock"}

RpcErrorValues ==
    [kind: ErrorKinds \ {"ErrorResponse"}, code: {"none"}]
        \cup [kind: {"ErrorResponse"}, code: ResponseCodes]

(* An ErrorResponse(code) from the peer *)
ResponseAction(code, proto, dir) ==
    CASE code = "Unknown" -> "HighToleranceError"
      [] code = "ResourceUnavailable" ->
           IF proto \in {"BlobsByRoot", "DataColumnsByRoot"} \/ dir = "Incoming"
           THEN "NoReport" ELSE "Fatal"
      [] code = "ServerError" -> "MidToleranceError"
      [] code = "InvalidRequest" -> "LowToleranceError"
      [] code = "RateLimited" ->
           CASE proto \in LightClientProtocols -> "NoReport"
             [] proto \in DataProtocols \cup {"Ping"} -> "MidToleranceError"
             [] OTHER -> "LowToleranceError"
      [] code = "BlobsNotFoundForBlock" -> "LowToleranceError"

(* The PeerAction handle_rpc_error reports for err on a stream of proto    *)
(* opened in direction dir, or NoReport                                    *)
RpcErrorAction(err, proto, dir) ==
    CASE err.kind = "IncompleteStream" -> "MidToleranceError"
      [] err.kind \in {"InternalError", "Disconnected"} -> "NoReport"
      [] err.kind \in {"HandlerRejected", "InvalidData", "SszReadError"} -> "Fatal"
      [] err.kind = "IoError" -> "HighToleranceError"
      [] err.kind = "ErrorResponse" -> ResponseAction(err.code, proto, dir)
      [] err.kind \in {"SszWriteError", "NegotiationTimeout"} -> "LowToleranceError"
      [] err.kind = "UnsupportedProtocol" ->
           IF proto \in {"Ping", "MetaData", "Status"} THEN "Fatal" ELSE "NoReport"
      [] err.kind = "StreamTimeout" ->
           CASE dir = "Incoming" -> "NoReport"
             [] proto = "Ping" -> "LowToleranceError"
             [] proto \in DataProtocols -> "MidToleranceError"
             [] OTHER -> "NoReport"
====
