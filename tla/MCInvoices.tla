----------------------------- MODULE MCInvoices -----------------------------
EXTENDS Invoices
=============================================================================
