-------------------------------- MODULE MCBoot -------------------------------
(***************************************************************************)
(* Model checking of Boot.                                                 *)
(***************************************************************************)
EXTENDS Boot

\* The environment of the catalog's chart, with a pool of one connection.
Chart ==
    [key \in Keys |->
        CASE key = "DATABASE_URL" -> DSN [] key = "DB_MAX_CONNS" -> "1" [] OTHER -> ""]

With(key, value) == [Chart EXCEPT ![key] = value]

MCEnvironments ==
    {Chart, With("CATALOG_STORE", "memory"), With("DB_MIGRATE_ON_BOOT", "false")}
        \cup {With("DB_MAX_CONNS", v) : v \in {"", "3", "-1", "2^31", "2^32+1"}}
        \cup {With("DB_CONNECT_TIMEOUT", "0s"), With("DATABASE_URL", ""), With("DATABASE_URL", "junk"),
              With("CATALOG_STORE", "junk")}
        \cup {[Chart EXCEPT !["OTEL_TRACE_SAMPLE_RATE"] = "junk", !["DB_MIGRATE_ON_BOOT"] = "junk",
                            !["DATABASE_URL"] = ""]}
==============================================================================
