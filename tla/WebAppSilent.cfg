\* stop() comes between accept(), which has returned a client, and the lines
\* that publish the client: nobody shuts its socket down, and the client says
\* nothing.  Two clients and two descriptors, as in the run that passes.
SPECIFICATION AppSpec
CONSTANTS
  Clients = {c1, c2}
  Fds = {1, 2}
PROPERTIES
  LoopEnds
CHECK_DEADLOCK FALSE
