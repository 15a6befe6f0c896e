---------------------------- MODULE DecisionsMC ----------------------------
EXTENDS Decisions

CONSTANTS m1, m2, i1, i2, i3, v1, v2

MCMacs == {m1, m2}
MCIps == {i1, i2, i3}
MCValues == {v1, v2}

\* Opcodes of the registry file that the source does not list: the writes it classifies
\* by code, those that cut the connection by a word of their name, and groups in which
\* reads, undoing writes and ambiguous names are to be found by inference.
MCOther ==
  UNION { Opcodes("network", "secret", <<"SYNC_CONFIG">>, {<<\h4097, "GET">>}),
          Opcodes("network", "secret", <<"TSS_SYNC_NETWORK_CONFIG">>, {<<\h40A5, "GET">>}),
          Opcodes("vpn", "secret", <<"OPENVPN", "CERT", "EXPORT">>, {<<\h4369, "GET">>}),
          Opcodes("vpn", "secret", <<"VPN", "SERVER">>,
                  {<<\h4361, "GET">>, <<\h4362, "ADD">>, <<\h4363, "REMOVE">>, <<\h4364, "MODIFY">>}),
          Opcodes("network", "private", <<"WAN", "PROFILE">>,
                  {<<\h4058, "ADD">>, <<\h4059, "MODIFY">>, <<\h405A, "DELETE">>}),
          Opcodes("network", "private", <<"WAN", "PROFILE", "LIST">>, {<<\h4057, "GET">>}),
          Opcodes("network", "private", <<"IP", "MAC", "BINDING", "LIST">>,
                  {<<\h43F0, "GET">>, <<\h43F2, "ADD">>, <<\h43F3, "REMOVE">>, <<\h43F4, "MODIFY">>}),
          Opcodes("network", "private", <<"WOL", "LIST">>,
                  {<<\h43F6, "GET">>, <<\h43F7, "ADD">>, <<\h43F8, "REMOVE">>}),
          Opcodes("routing", "private", <<"ROUTE", "STATIC", "LIST">>, {<<\h4294, "GET">>}),
          Opcodes("routing", "private", <<"ROUTE", "STATIC">>,
                  {<<\h4296, "REMOVE">>, <<\h4297, "MODIFY">>, <<\h4299, "ADD">>}),
          Opcodes("security", "secret", <<"HOMECARE", "OWNER">>,
                  {<<\h40E2, "ADD">>, <<\h40E4, "MODIFY">>, <<\h40E5, "GET">>}),
          Opcodes("security", "secret", <<"HOMECARE", "OWNER", "LIST">>,
                  {<<\h40E1, "GET">>, <<\h40E3, "REMOVE">>}),
          Opcodes("system", "private", <<"BAND_SEARCH">>,
                  {<<\h425A, "START">>, <<\h425B, "STOP">>, <<\h425C, "GET">>}),
          Opcodes("system", "private", <<"NETWORK_SEARCH">>, {<<\h425E, "SET">>, <<\h425F, "GET">>}),
          Opcodes("system", "private", <<"REBOOT", "SCHEDULE">>, {<<\h42E0, "GET">>, <<\h42E1, "SET">>}),
          Opcodes("system", "secret", <<"PHONE", "NUMBER">>,
                  {<<\h42AC, "ADD">>, <<\h42AD, "MODIFY">>, <<\h42AE, "REMOVE">>}),
          Opcodes("system", "secret", <<"PHONE", "NUMBER", "LIST">>, {<<\h42AB, "GET">>}),
          Opcodes("firmware", "private", <<"FW", "AUTO", "UPDATE">>,
                  {<<\h427E, "GET">>, <<\h427F, "SET">>}) }

\* As if the P9 had answered some of their reads.
MCAnswered == {\h4057, \h43F0, \h43F6, \h4294, \h40E1, \h40E5, \h425C, \h425F, \h42E0, \h42AB, \h4361, \h427E}
=============================================================================
