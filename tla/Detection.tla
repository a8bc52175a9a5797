----------------------------- MODULE Detection -----------------------------
(***************************************************************************)
(* DeviceDetector.detect (protocols/detect.py): the ports are scanned, all *)
(* protocols are probed on the open ones and, when asked for, every        *)
(* candidate is verified with a read, each stage with all its tasks at     *)
(* once.  Targets, timeouts and devices decide what comes of each task and *)
(* when.                                                                   *)
(***************************************************************************)
EXTENDS Integers, Sequences, FiniteSets, SequencesExt

CONSTANTS Ports,     \* scan_ports, in the order they are given
          Protocols, \* known_protocols(), in the order they are registered
          PORT_PRIORS

ASSUME DetectionAssumption ==
  /\ Ports \in Seq(Int) /\ IsInjective(Ports)
  /\ Protocols \in Seq(STRING) /\ IsInjective(Protocols)

VARIABLES stage,    \* scan, fingerprint, deep or done
          deep,     \* whether candidates are to be verified
          scanned,  \* what the finished scans found, by port
          probes,   \* the results of the finished probes, by port and protocol
          landed,   \* history: the probes in the order they finished
          reads,    \* how the finished deep reads went, by candidate
          candidates, unknown

detection_vars == <<stage, deep, scanned, probes, landed, reads, candidates, unknown>>

SCAN_RESULTS  == {"open", "refused", "timeout"}
PROBE_RESULTS == {"reachable", "unreachable", "none"}   \* none: out of time, or it raised

\* A sequence without what is not to be kept.
Kept(s, keep) ==
  LET kept[n \in 0..Len(s)] ==
        IF n = 0 THEN <<>> ELSE IF s[n] \in keep THEN Append(kept[n - 1], s[n]) ELSE kept[n - 1]
  IN kept[Len(s)]

\* All pairs of a port of one sequence and a protocol, port by port.
PairsOf(ports) ==
  FlattenSeq([i \in DOMAIN ports |-> [j \in DOMAIN Protocols |-> <<ports[i], Protocols[j]>>]])
OpenPorts == Kept(Ports, {p \in DOMAIN scanned : scanned[p] = "open"})
Reached   == {pair \in DOMAIN probes : probes[pair] = "reachable"}

\* Mutated form: the candidates in the order in which their probes finished.
CollectLanded == Kept(landed, Reached)

\* gather returns the results in the order of its tasks, so what is collected
\* is in the order of ports and protocols.
Collect == Kept(PairsOf(OpenPorts), Reached)

Unknown(found) == Kept(OpenPorts, {p \in Range(OpenPorts) : \A i \in DOMAIN found : found[i][1] # p})

\* The rank of a candidate: verified ones first, then those on their own port.
IsPrior(pair) == pair[1] \in DOMAIN PORT_PRIORS /\ PORT_PRIORS[pair[1]] = pair[2]
Verified(pair) == pair \in DOMAIN reads /\ reads[pair]
Rank(pair) == (IF Verified(pair) THEN 0 ELSE 2) + (IF IsPrior(pair) THEN 0 ELSE 1)

\* list.sort is stable.
Ranked(found) ==
  FlattenSeq([r \in 1..4 |-> Kept(found, {pair \in Range(found) : Rank(pair) = r - 1})])

-----------------------------------------------------------------------------

DetectionInit ==
  /\ stage = "called" /\ deep = FALSE
  /\ scanned = <<>> /\ probes = <<>> /\ landed = <<>> /\ reads = <<>>
  /\ candidates = <<>> /\ unknown = <<>>

Detect ==
  /\ stage = "called"
  /\ stage' = "scan"
  /\ deep' \in BOOLEAN
  /\ UNCHANGED <<scanned, probes, landed, reads, candidates, unknown>>

\* A key added to a function.
With(f, key, value) == [k \in DOMAIN f \cup {key} |-> IF k = key THEN value ELSE f[k]]

\* _scan_one
ScanPort ==
  /\ stage = "scan"
  /\ \E p \in Range(Ports) \ DOMAIN scanned : \E result \in SCAN_RESULTS : scanned' = With(scanned, p, result)
  /\ UNCHANGED <<stage, deep, probes, landed, reads, candidates, unknown>>

ScanEnds ==
  /\ stage = "scan" /\ DOMAIN scanned = Range(Ports)
  /\ stage' = "fingerprint"
  /\ UNCHANGED <<deep, scanned, probes, landed, reads, candidates, unknown>>

\* _fingerprint
Fingerprint ==
  /\ stage = "fingerprint"
  /\ \E pair \in Range(PairsOf(OpenPorts)) \ DOMAIN probes :
       /\ \E result \in PROBE_RESULTS : probes' = With(probes, pair, result)
       /\ landed' = Append(landed, pair)
  /\ UNCHANGED <<stage, deep, scanned, reads, candidates, unknown>>

FingerprintEnds ==
  /\ stage = "fingerprint" /\ DOMAIN probes = Range(PairsOf(OpenPorts))
  /\ candidates' = Collect
  /\ unknown' = Unknown(Collect)
  /\ stage' = "deep"
  /\ UNCHANGED <<deep, scanned, probes, landed, reads>>

\* _one of _verify_deep: a read that fails leaves the candidate as it is.
DeepRead ==
  /\ stage = "deep" /\ deep
  /\ \E pair \in Range(candidates) \ DOMAIN reads : \E good \in BOOLEAN : reads' = With(reads, pair, good)
  /\ UNCHANGED <<stage, deep, scanned, probes, landed, candidates, unknown>>

DetectReturns ==
  /\ stage = "deep" /\ (deep => DOMAIN reads = Range(candidates))
  /\ candidates' = Ranked(candidates)
  /\ stage' = "done"
  /\ UNCHANGED <<deep, scanned, probes, landed, reads, unknown>>

DetectionNext ==
  \/ Detect \/ ScanPort \/ ScanEnds \/ Fingerprint
  \/ FingerprintEnds \/ DeepRead \/ DetectReturns

-----------------------------------------------------------------------------

\* What detect returns depends on what the tasks found, not on the order they
\* finished in: the candidates are the protocols that were reached, the
\* verified before the others, then those on the port that is theirs, then by
\* the order of ports and of protocols; and the open ports without a candidate,
\* all of them and no others, are the unknown services.
RankingIsByOutcome ==
  stage = "done" =>
    LET Place(pair) == CHOOSE i \in DOMAIN PairsOf(Ports) : PairsOf(Ports)[i] = pair
        Before(a, b) == Rank(a) < Rank(b) \/ (Rank(a) = Rank(b) /\ Place(a) < Place(b))
    IN /\ Range(candidates) = Reached /\ Len(candidates) = Cardinality(Reached)
       /\ \A i, j \in DOMAIN candidates : i < j => Before(candidates[i], candidates[j])
       /\ Range(unknown) = {p \in Range(Ports) : scanned[p] = "open" /\ \A pair \in Reached : pair[1] # p}
=============================================================================
