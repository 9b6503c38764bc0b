---- MODULE PipelineClaims ----
(* What comments in the code say of the pipeline, which it does not do. *)
EXTENDS MCPipeline

\* MatchingEngineMain.cpp:258 of SIGTERM: "Causes input thread to exit recvfrom
\* loop".  std::signal lets the call go on after the handler, and the handler
\* may run in any thread: without a further datagram nobody looks at the flag.
SigtermEnds == shutdownRequested ~> main \in {6, Terminated}

\* commandParser.hpp:7: "Returns a Command with type == CommandType::Invalid on
\* parse failure."  Then no line could end the process; but stoi and stoll throw
\* on text that is no number, and nothing catches.
ParseFailureIsHarmless == main # Terminated

====
