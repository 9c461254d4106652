------------------------------ MODULE Services ------------------------------
(***************************************************************************)
(* The parts that answer one call at a time and share no state, so they    *)
(* are looked at one by one: the requests to the models of one turn, the   *)
(* image_gen calls of a session, the structure of one image, and the next  *)
(* times of one cron job.                                                  *)
(***************************************************************************)
EXTENDS ModelCalls, ImageGen, ImageFormat, CronExpression

VARIABLE service

svars == <<service, models, image, parser, cron>>

Init ==
  /\ ModelInit /\ ImageInit /\ FormatInit /\ CronInit
  /\ service \in {"models", "image", "format", "cron"}
  /\ service # "models" => kinds = [primary |-> "openai", fallback |-> "none"]
  /\ service # "image" => format = "b64_json" /\ backend = "posix" /\ parent = "dir"
  /\ service # "format" => mime = "png"
  /\ service # "cron" => expr = Malformed /\ zone = CHOOSE z \in Zones : TRUE

Next ==
  /\ \/ service = "models" /\ ModelNext /\ UNCHANGED <<image, parser, cron>>
     \/ service = "image" /\ ImageNext /\ UNCHANGED <<models, parser, cron>>
     \/ service = "format" /\ FormatNext /\ UNCHANGED <<models, image, cron>>
     \/ service = "cron" /\ CronNext /\ UNCHANGED <<models, image, parser>>
  /\ UNCHANGED service

Spec == Init /\ [][Next]_svars

=============================================================================
