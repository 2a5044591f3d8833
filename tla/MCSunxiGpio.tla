----------------------------- MODULE MCSunxiGpio -----------------------------
EXTENDS SunxiGpio
MCPins    == {64 + 7, 64 + 12, 64 + 13, 160 + 3}
MCCalled  == <<{64 + 13}, {160 + 3}>>
MCShared  == <<{64 + 13}, {64 + 12}>>
MCHigh    == {64 + 8, 64 + 16}
MCHighCalled == <<MCHigh, {}>>
MCConfigs == {{0}, 0..2}
MCDrives  == {{1}}
MCEnables == {{}, 0..2}
MCReset   == {{}, {b \in 0..31 : b % 4 # 3}}
==============================================================================
