--------------------------- MODULE MCServiceParts ---------------------------
\* The service's parts on small instances.
EXTENDS ServiceParts

\* VersionInfo: two fallbacks and a language that is none of them.
CONSTANTS English, Neutral

MCTables    == {Zero, English, Neutral}
MCFallbacks == <<English, Neutral>>

\* PathConversion: two devices of which one's name starts the other's, a third
\* one, and paths that name them in another case.
CONSTANTS Volume, VOLUME, One, Nil, Cd, File, Registry, Machine, User, Key, HKLM, HKCU

MCFold(w) == IF w = VOLUME THEN Volume ELSE w
MCDevices == {<<Volume, One>>, <<Volume, One, Nil>>, <<Cd>>}
MCPaths   == {<<VOLUME, One, Separator, File>>, <<Volume, One, Nil, Separator, File>>,
              <<Cd, Separator, VOLUME>>, <<File>>}
MCKeys    == {<<Registry, Machine, Separator, Key>>, <<Registry, User, Separator, Key>>,
              <<Registry, Machine, One, Separator, Key>>}
MCRoots   == {[prefix |-> <<Registry, Machine, Separator>>, root |-> HKLM],
              [prefix |-> <<Registry, User, Separator>>, root |-> HKCU]}
=============================================================================
