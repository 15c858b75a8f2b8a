--------------------------- MODULE ServedDefinitions ---------------------------
(***************************************************************************)
(* What the start of the server and its trigger steps promise of the       *)
(* definitions: which are served, after which, and what is performed.      *)
(* Definitions.tla is the start and the triggers.  What the redress does   *)
(* to a definition, and where the steps of it then run, are parameters.    *)
(***************************************************************************)
EXTENDS Integers, Sequences, FiniteSets, SequencesExt

CONSTANTS
  Environments,   (* the switches of strict mode and of the two redresses      *)
  SourceLists,    (* the keys of the definitions, in the order they are read:  *)
                  (* prebuilt, programmatic, the files that are not excluded   *)
  Definition,     (* what a key, a text or a parsed content says: type, code,  *)
                  (* enabled, initOnly, given, and for a startup pipeline      *)
                  (* fails and registers, the texts its snippets register      *)
  Malformed,      (* a text the reader rejects                                 *)
  Texts,          (* the contents that are strings                             *)
  Triggers,       (* the trigger steps that run at the same time               *)
  RedressedIn(_, _),  (* environment, as written: what the reader makes of it  *)
  RunsAt(_),          (* as redressed: where each of its steps runs            *)
  MeantAt(_, _)       (* environment, as written: where each is meant to run   *)

(* A definition has its fields, and the texts there are say what they mean. *)
ASSUME DefinitionsAssumption ==
  /\ \A key \in DOMAIN Definition : Definition[key] # Malformed =>
       /\ {"type", "code", "enabled", "initOnly", "given", "fails", "registers"}
            \subseteq DOMAIN Definition[key]
       /\ Definition[key].registers \in Seq(DOMAIN Definition)
  /\ "code" \notin DOMAIN Malformed
  /\ SourceLists \subseteq Seq(DOMAIN Definition)
  /\ Texts \subseteq DOMAIN Definition

(* The steps of each definition run where they are meant to, once it is     *)
(* redressed: what the definitions have to be for the redress to be right.  *)
(* It rules out a step that relies on a transaction around its async set or *)
(* around its cursor, and a transaction opened again inside its own set or  *)
(* behind it.                                                               *)
ASSUME RedressAssumption ==
  \A environment \in Environments, key \in DOMAIN Definition :
    Definition[key] # Malformed =>
      RunsAt(RedressedIn(environment, Definition[key].given))
        = MeantAt(environment, Definition[key].given)

VARIABLES
  env, sources,      (* the configuration, never changed                       *)
  phase,             (* "reading", "initializing", "launched", "failed"        *)
  pipelineBuilders,  (* PipelineRepository.PIPELINE_BUILDERS                   *)
  initialized,       (* the codes of the startup pipelines performed           *)
  trigger            (* per trigger step: at, request, pipeline                *)

Blank == ""

IsStep(def) == def.type \in {"step", "step-sets"}
IsPipeline(key) == Definition[key] # Malformed /\ ~IsStep(Definition[key])

(* filter: the elements of s at these places, in their order. *)
FilteredUpTo(s, places) ==
  LET kept[n \in 0..Len(s)] ==
        IF n = 0 THEN <<>>
        ELSE IF n \in places THEN Append(kept[n - 1], s[n]) ELSE kept[n - 1]
  IN kept

Filtered(s, places) == FilteredUpTo(s, places)[Len(s)]
-----------------------------------------------------------------------------
(* A trigger performs the content it was given, whatever other triggers    *)
(* parsed, cached and replaced under the same cache key meanwhile, and     *)
(* each typeorm step of it runs in the transaction it was written for, of  *)
(* definitions the redress is right about (findPipeline across the await   *)
(* of its reader; the redress's context).                                  *)
TriggeredAsWritten ==
  \A t \in Triggers :
    LET request == trigger[t].request
    IN trigger[t].at = "performed" /\ request.code = Blank /\ request.content \in Texts =>
         LET def == Definition[request.content]
         IN /\ def # Malformed
            /\ trigger[t].pipeline.code \in {def.code, "TemporaryPipelineForStep" \o def.code}
            /\ RunsAt(trigger[t].pipeline.given) = MeantAt(env, def.given)

PipelinesOf(keys) == {Definition[k] : k \in {key \in ToSet(keys) : IsPipeline(key)}}

(* The startup pipelines that are enabled, in the order they are read. *)
StartupPlaces ==
  {k \in DOMAIN sources : /\ IsPipeline(sources[k])
                          /\ Definition[sources[k]].enabled /\ Definition[sources[k]].initOnly}
Startup == Filtered(sources, StartupPlaces)

(* Nothing is served before every startup pipeline that is enabled was     *)
(* performed, in the order they were read, and one that fails leaves       *)
(* nothing served (executeInitPipelines, launchServer).                    *)
ServedAfterInit ==
  DOMAIN pipelineBuilders # {} =>
    /\ phase = "launched"
    /\ initialized = [n \in 1..Len(Startup) |-> Definition[Startup[n]].code]

(* What the server performs under a code is what one definition says: the  *)
(* only one the sources have, or one a startup pipeline registered; two    *)
(* sources of a code never replace each other silently, and a disabled one *)
(* is not served (parseDef, load, putPipeline).                            *)
ServedAsDefined ==
  phase = "launched" =>
    LET written == {def \in PipelinesOf(sources) : ~def.initOnly}
        registered == UNION {PipelinesOf(def.registers) :
                               def \in {d \in PipelinesOf(sources) : d.initOnly /\ d.enabled}}
        of(defs, c) == {def \in defs : def.code = c /\ def.enabled}
    IN /\ {def.code : def \in {d \in written \union registered : d.enabled}}
            = DOMAIN pipelineBuilders
       /\ \A c \in DOMAIN pipelineBuilders :
            /\ RunsAt(pipelineBuilders[c].given) \in
                 {MeantAt(env, def.given) :
                    def \in of(IF of(registered, c) # {} THEN registered ELSE written, c)}
            /\ of(registered, c) = {} => Cardinality(of(written, c)) = 1
=============================================================================
