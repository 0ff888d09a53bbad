----------------------------- MODULE WalPosition -----------------------------
(***************************************************************************)
(* WAL positions: the texts PostgreSQL returns for them, the number that   *)
(* internal/postgres makes of a text, and the optional probe that reads    *)
(* one from a site.  A position is two words of 32 bits; here a word has   *)
(* Word values, and the number that holds both has Word * Word.            *)
(***************************************************************************)
EXTENDS Naturals

CONSTANTS
  Word,     \* 2^32
  Unknown   \* no value: nil, an error, an unset field

(***************************************************************************)
(* cut     the text has a "/" with something on either side of it          *)
(* hi, lo  the hexadecimal numbers there; Word stands for every one that   *)
(*         does not fit a word or is no number                             *)
(***************************************************************************)
Text == [cut : BOOLEAN, hi : 0 .. Word, lo : 0 .. Word]

ASSUME WordAssumption ==
  /\ Word \in Nat \ {0}
  /\ Unknown \notin Nat \cup Text \cup BOOLEAN

\* What pg_lsn renders; '0/0' is the answer of a standby that replayed nothing.
Rendered == {t \in Text : t.cut /\ t.hi < Word /\ t.lo < Word}

\* (hi << 32) + lo in 64 bits.
ParseLSN(t) ==
  IF ~t.cut \/ t.hi >= Word \/ t.lo >= Word THEN Unknown
  ELSE (t.hi * Word + t.lo) % (Word * Word)

(***************************************************************************)
(* Result of SQLProber.Probe: the text and its number.  A failed           *)
(* connection or query, and a text that does not parse, are errors.        *)
(***************************************************************************)
Failed == [LSN |-> Unknown, LSNValue |-> Unknown]

SQLProbe(answer) ==
  IF answer = Unknown THEN Failed
  ELSE IF ParseLSN(answer) = Unknown THEN Failed
  ELSE [LSN |-> answer, LSNValue |-> ParseLSN(answer)]

\* What may come back for probeQuery.
Answers == {Unknown} \cup Text

(***************************************************************************)
(* spec.postgresProbe as far as postgresProbeConfig can fail on it: a host *)
(* of its own or the site's replication endpoint, and two readable keys.   *)
(***************************************************************************)
PostgresProbe == [endpoint : BOOLEAN, replicationEndpoint : BOOLEAN,
                  user : BOOLEAN, password : BOOLEAN]

postgresProbeConfig(p) == (p.endpoint \/ p.replicationEndpoint) /\ p.user /\ p.password

\* What probePostgres adds to the observation of a site of health h.
probePostgres(h, p, answer) ==
  IF p = Unknown THEN Failed
  ELSE IF ~h.Reachable \/ ~h.Ready \/ ~postgresProbeConfig(p) THEN Failed
  ELSE SQLProbe(answer)
=============================================================================
