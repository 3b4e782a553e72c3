---- MODULE MCWs281xConsumer ----
EXTENDS Ws281xConsumer

MCConfigs == [Output -> 0 .. PixelsPerOutput]
====
