---------------------------- MODULE ServerStartMC ----------------------------
(* Environments with one key changed at a time, and an extreme one, for TLC. *)
EXTENDS ServerStart

\* What a key may be set to: not a number, too small, 300000 (which overflows as
\* seconds, and is more than the cap as milliseconds), 1000 (which overflows as
\* seconds, too, and to a negative number).
Settings(key) ==
  CASE key \in {"DATABASE_URL", "SHUTDOWN_DRAIN_SECONDS"} -> {Unset}
    [] key = "LISTEN_ADDR"  -> {Garbage}
    [] key = "MAX_ATTEMPTS" -> {Garbage, 0, 2}
    [] key \in {"LEASE_DURATION_SECONDS", "RETRY_BASE_MS"} -> {-1, 0, 300000}
    [] key \in {"REAPER_INTERVAL_SECONDS", "RETRY_CAP_MS"} -> {0, 1000}
    [] OTHER -> {0}

Usual == [[key \in Key |-> Unset] EXCEPT !["DATABASE_URL"] = 0, !["MAX_ATTEMPTS"] = 2]

\* A cap that no int64 holds once it was a float64, and a base that reaches it.
Extreme == [Usual EXCEPT !["RETRY_BASE_MS"] = 300000, !["RETRY_CAP_MS"] = 524284]

MCEnv == {Extreme} \cup UNION {{[Usual EXCEPT ![key] = v] : v \in Settings(key)} : key \in Key}
===============================================================================
