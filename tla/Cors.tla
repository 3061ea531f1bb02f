--------------------------------- MODULE Cors ---------------------------------
(***************************************************************************)
(* cors::middleware: what it makes of a response, and whether it calls     *)
(* next().  Header names are shortened; an absent header is "".            *)
(***************************************************************************)
EXTENDS Response, FiniteSets

(* append_vary keeps a list without repetitions. *)
AppendVary(res, token) == SetHeader(res, "Vary", HeaderIn(res, "Vary", {}) \cup {token})

(* origin_allowed: the value to allow, or "" for an origin that is not     *)
(* allowed, and whether the value is one origin among several.             *)
AllowedValue(o, origin) ==
  CASE o.reflect                              -> origin
    [] ~o.reflect /\ o.allow = "*"            -> IF o.credentials THEN "" ELSE "*"
    [] OTHER                                  -> IF origin = o.allow THEN o.allow ELSE ""

VariesByOrigin(o) == o.reflect \/ o.allow # "*"

WithAllowedNeverVary(o, origin, res) ==
  LET value == AllowedValue(o, origin)
      allowed == SetHeader(res, "Allow-Origin", value)
  IN IF value = "" THEN res
     ELSE IF o.credentials THEN SetHeader(allowed, "Allow-Credentials", "true") ELSE allowed

(* Only an origin that is allowed leaves anything, Vary included. *)
WithAllowed(o, origin, res) ==
  LET value == AllowedValue(o, origin)
      allowed == SetHeader(res, "Allow-Origin", value)
      trusted == IF o.credentials THEN SetHeader(allowed, "Allow-Credentials", "true") ELSE allowed
  IN IF value = "" THEN res
     ELSE IF VariesByOrigin(o) THEN AppendVary(trusted, "Origin") ELSE trusted

IsPreflight(req) == req.method = "OPTIONS" /\ req.wantsMethod # ""

(* The methods and headers a preflight is told of: the configured ones, or *)
(* those it asked for.                                                     *)
WithPreflight(o, req, res) ==
  LET methods == SetHeader(res, "Allow-Methods", IF o.methods # "" THEN o.methods ELSE req.wantsMethod)
      echoed  == AppendVary(SetHeader(methods, "Allow-Headers", req.wantsHeaders), "Request-Headers")
      headers == CASE o.headers # ""                             -> SetHeader(methods, "Allow-Headers", o.headers)
                   [] o.headers = "" /\ req.wantsHeaders # ""    -> echoed
                   [] OTHER                                      -> methods
      network == IF o.privateNetwork /\ req.wantsNetwork
                 THEN SetHeader(headers, "Allow-Network", "true") ELSE headers
  IN IF o.maxAge > 0 THEN SetHeader(network, "Max-Age", o.maxAge) ELSE network

(* The response, and how often next() is called: never after a preflight   *)
(* that the middleware answers itself.                                     *)
CorsMiddleware(o, req, res) ==
  LET allowed == WithAllowed(o, req.origin, res)
      asked   == WithPreflight(o, req, allowed)
      ended   == End(SetHeader(SetStatus(asked, 204), "Content-Length", 0))
      typed   == IF AllowedValue(o, req.origin) = "" THEN ended
                 ELSE SetHeader(ended, "Content-Type", "text")
  IN CASE req.origin = ""                            -> [res |-> res, next |-> TRUE]
       [] req.origin # "" /\ IsPreflight(req)        ->
            IF o.preflightContinue THEN [res |-> asked, next |-> TRUE]
                                   ELSE [res |-> typed, next |-> FALSE]
       [] OTHER -> [res |-> IF o.expose = "" THEN allowed
                            ELSE SetHeader(allowed, "Expose-Headers", o.expose),
                    next |-> TRUE]
=============================================================================
