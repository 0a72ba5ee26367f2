------------------------------- MODULE MCParts -------------------------------
(***************************************************************************)
(* The parts that share no state - loading a configuration, building and   *)
(* closing its appenders, the filters, the sinks, the times and deletions  *)
(* of rolling files - checked by one run: each behaviour is one of one of  *)
(* them, the others stand still.                                           *)
(***************************************************************************)
EXTENDS MCFileSink, MCFilterChain, MCConfigLoad, MCAppenderGraph, MCRollingHelpers

VARIABLE part
partVars == <<part, sinkVars, filterVars, loadVars, graphVars, helperVars>>

FiltersIdle ==
    /\ filters = <<>> /\ bucket = <<>> /\ decided = <<>>
    /\ now = 0 /\ filtered = 0
    /\ caller = [c \in Callers |-> [event |-> CHOOSE e \in Arrivals : TRUE, frames |-> <<>>,
                                    verdict |-> "neutral"]]
    /\ trace = [c \in Callers |-> <<>>]

GraphIdle ==
    /\ NothingYet
    /\ source = "code" /\ phase = "ready"
    /\ fault = NoFault /\ broken = {} /\ pass = <<>>
    /\ title = CHOOSE t \in Titles : TRUE
    /\ LET g == CHOOSE h \in CodeGraphs : TRUE IN spec = g.spec /\ list = <<g.top>>

PartsInit ==
    /\ part \in {"sinks", "filters", "load", "appenders", "rolling"}
    /\ SinkInit /\ LoadInit
    /\ IF part = "filters" THEN FilterInit ELSE FiltersIdle
    /\ IF part = "appenders" THEN GraphInit ELSE GraphIdle
    /\ IF part = "rolling" THEN HelperInit ELSE ScheduleIdle /\ SweepIdle

PartsNext ==
    \/ /\ part = "sinks" /\ SinkNext
       /\ UNCHANGED <<part, filterVars, loadVars, graphVars, helperVars>>
    \/ /\ part = "filters" /\ FilterNext
       /\ UNCHANGED <<part, sinkVars, loadVars, graphVars, helperVars>>
    \/ /\ part = "load" /\ LoadNext
       /\ UNCHANGED <<part, sinkVars, filterVars, graphVars, helperVars>>
    \/ /\ part = "appenders" /\ GraphNext
       /\ UNCHANGED <<part, sinkVars, filterVars, loadVars, helperVars>>
    \/ /\ part = "rolling" /\ HelperNext
       /\ UNCHANGED <<part, sinkVars, filterVars, loadVars, graphVars>>

PartsSpec == PartsInit /\ [][PartsNext]_partVars
=============================================================================
