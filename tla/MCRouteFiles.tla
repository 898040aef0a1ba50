---------------------------- MODULE MCRouteFiles ----------------------------
EXTENDS RouteFilesProps

CONSTANT users

OneFile == <<users>>
=============================================================================
