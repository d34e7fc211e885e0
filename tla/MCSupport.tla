------------------------------- MODULE MCSupport -------------------------------
(* The loader, the blocking queue and the parallel foreach, one at a time:    *)
(* they share nothing, so a behaviour is one of the component `part`.        *)
EXTENDS Loader, Queue, Foreach

VARIABLE part

Doc(defect, constants, protos, lines) ==
  [defect |-> defect, constants |-> constants, protos |-> protos, lines |-> lines]
MCDocuments ==
  {Doc(d, <<>>, {<<>>}, {}) : d \in {"syntax", "object", "constant", "prototype"}}
    \cup {Doc("none", <<"number", "string">>, {<<>>, <<1>>, <<2>>}, {<<1>>}),
          Doc("none", <<>>, {<<>>, <<1>>, <<1, 1>>}, {<<>>})}

Init ==
  /\ part \in {"loader", "queue", "foreach"} /\ LoaderInit /\ QueueInit /\ ForeachInit
  /\ part # "queue" => crew = Producers \cup Consumers /\ queueSize = 1
  /\ part # "foreach" => team = Workers /\ refused = {}
Next ==
  \/ part = "loader"  /\ LoaderNext /\ UNCHANGED <<part, queueVars, foreachVars>>
  \/ part = "queue"   /\ QueueNext /\ UNCHANGED <<part, loaderVars, foreachVars>>
  \/ part = "foreach" /\ ForeachNext /\ UNCHANGED <<part, loaderVars, queueVars>>
Spec == Init /\ [][Next]_<<part, loaderVars, queueVars, foreachVars>>

(* Every variable keeps its type: each module's type invariant.             *)
TypeOK == LoaderTypeOK /\ QueueTypeOK /\ ForeachTypeOK
=============================================================================
