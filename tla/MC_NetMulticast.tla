--------------------------- MODULE MC_NetMulticast ---------------------------
EXTENDS NetMulticast

\* Three groups whose byte-swapped forms are multicast addresses too, so a
\* missing htonl is accepted by the kernel rather than rejected.
MCGroups == {<<224, 1, 1, 239>>, <<239, 2, 2, 224>>, <<230, 0, 1, 225>>}

\* Two interfaces; the first is the default route's.
MCInterfaces == {<<10, 0, 0, 1>>, <<10, 0, 0, 2>>}
MCDefaultIf == <<10, 0, 0, 1>>
=============================================================================
