-------------------------- MODULE MCPreviewServer --------------------------
EXTENDS PreviewServer
=============================================================================
