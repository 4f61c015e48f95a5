---------------------------- MODULE MCDirectDownload ----------------------------
EXTENDS DirectDownload
Sizes == <<2, 3>>
===============================================================================
