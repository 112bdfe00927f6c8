----------------------------- MODULE MCReleases -----------------------------
EXTENDS Releases

\* 3.2R1, 4.0 and 4.0r2, the examples of config.py:72.
MCConfigured ==
  {Nuage(<< <<3>>, <<2>> >>, << <<1>> >>), Nuage(<< <<4>>, <<0>> >>, << <<>> >>),
   Nuage(<< <<4>>, <<0>> >>, << <<2>> >>)}
\* kilo, newton, queens and master.
MCOpenStacks == {OpenStack(l) : l \in {11, 14, 17, Master}}
MCRequired == MCOpenStacks \union {Nuage(<< <<5>>, <<2>> >>, << <<>> >>)}
=============================================================================
