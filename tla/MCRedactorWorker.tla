-------------------------- MODULE MCRedactorWorker --------------------------
(* A TLC instance of RedactorWorker: two threads that share a worker, and a  *)
(* configuration of each kind.  The browser worker, which redacts frames    *)
(* alone, has an idle timeout or is kept warm; the Vision worker, which     *)
(* classifies texts as well, is released at once.                           *)
EXTENDS RedactorWorker

Of(kind, idle) == [kind |-> kind, idle |-> idle]

MCConfigs == {Of("browser", "timed"), Of("browser", "none"), Of("vision", "zero")}
=============================================================================
